---- MODULE Spec2Model ----
(***************************************************************************)
(* OncoPulse ingestion-and-ranking pipeline: the orchestrator              *)
(* (services/run_pipeline.py), the run ledger and item store (db.py) and   *)
(* the fingerprint/dedup engine (ingest/dedup.py).                         *)
(*                                                                         *)
(* Python strings whose characters matter (titles, identifiers, queries)   *)
(* are sequences of one-character strings; enum-like tags (status, source, *)
(* mode name, specialty) are plain TLA+ strings.                           *)
(***************************************************************************)
EXTENDS Integers, Sequences, FiniteSets, TLC

(***************************************************************************)
(* Bounds of the model                                                     *)
(***************************************************************************)
\* largest value of the wall clock (in ticks)
MaxNow == 3
\* largest number of rows of run_history
MaxRuns == 3
\* largest number of records one run's connectors return altogether
MaxIngested == 2
\* largest number of wall-clock ticks that pass during one call
MaxCallTicks == 1
\* largest number of seconds of the monotonic clock one step takes
MaxStepSeconds == 2
\* wall-clock ticks per day (timestamps are finer than a day)
TicksPerDay == 2

(***************************************************************************)
(* Characters and strings                                                  *)
(***************************************************************************)
LowerLetters == {"a", "b", "c", "d", "e", "f", "g", "h", "i", "j", "k", "l", "m", "n", "o", "p", "q", "r", "s", "t", "u", "v", "w", "x", "y", "z"}

UpperLetters == {"A", "B", "C", "D", "E", "F", "G", "H", "I", "J", "K", "L", "M", "N", "O", "P", "Q", "R", "S", "T", "U", "V", "W", "X", "Y", "Z"}

Digits == {"0", "1", "2", "3", "4", "5", "6", "7", "8", "9"}

UpperToLower ==
    ("A" :> "a") @@ ("B" :> "b") @@ ("C" :> "c") @@ ("D" :> "d") @@ ("E" :> "e") @@ ("F" :> "f") @@
    ("G" :> "g") @@ ("H" :> "h") @@ ("I" :> "i") @@ ("J" :> "j") @@ ("K" :> "k") @@ ("L" :> "l") @@
    ("M" :> "m") @@ ("N" :> "n") @@ ("O" :> "o") @@ ("P" :> "p") @@ ("Q" :> "q") @@ ("R" :> "r") @@
    ("S" :> "s") @@ ("T" :> "t") @@ ("U" :> "u") @@ ("V" :> "v") @@ ("W" :> "w") @@ ("X" :> "x") @@
    ("Y" :> "y") @@ ("Z" :> "z")

\* Python None for an optional string field
None == <<"<None>">>

\* Python None for an optional integer, timestamp or tag
NoTime == -1

NoText == "<None>"

\* as Min, but the first argument whatever the second
Min_first(a, b) == a

Min(a, b) == IF a < b THEN a ELSE b

Max(a, b) == IF a > b THEN a ELSE b

\* str.lower(), one character
LowerChar(c) == IF c \in UpperLetters THEN UpperToLower[c] ELSE c

\* str.lower()
Lower(s) == [i \in 1..Len(s) |-> LowerChar(s[i])]

\* str.isspace(), one character
IsSpace(c) == c \in {" ", "\t", "\n"}

\* [A-Za-z0-9_], the characters \b does not break between
IsWordChar(c) == c \in LowerLetters \cup UpperLetters \cup Digits \cup {"_"}

\* str.isalnum(): non-empty and every character a letter or a digit
IsAlnum(s) == Len(s) > 0 /\ \A i \in 1..Len(s) : s[i] \in LowerLetters \cup UpperLetters \cup Digits

\* as Strip, but nothing is stripped
Strip_nothing(s) == s

\* str.strip()
Strip(s) ==
    LET keep == {i \in 1..Len(s) : ~IsSpace(s[i])}
    IN  IF keep = {} THEN <<>>
        ELSE LET lo == CHOOSE i \in keep : \A j \in keep : i <= j
                 hi == CHOOSE i \in keep : \A j \in keep : i >= j
             IN  SubSeq(s, lo, hi)

\* s[:n]
Prefix(s, n) == SubSeq(s, 1, Min(Len(s), n))

\* t in s (substring)
Contains(s, t) == \E i \in 0..(Len(s) - Len(t)) : SubSeq(s, i + 1, i + Len(t)) = t

\* (v or ""): None and "" both read as ""
OrEmpty(v) == IF v = None THEN <<>> ELSE v

(***************************************************************************)
(* ingest/dedup.py: fingerprint and deduplication                          *)
(***************************************************************************)
\* re.sub(r"\s+", " ", t): every run of whitespace becomes one space
RECURSIVE CollapseSpaces(_)
CollapseSpaces(s) ==
    IF Len(s) = 0 THEN <<>>
    ELSE IF IsSpace(s[1])
         THEN IF Len(s) > 1 /\ IsSpace(s[2]) THEN CollapseSpaces(Tail(s))
              ELSE <<" ">> \o CollapseSpaces(Tail(s))
         ELSE <<s[1]>> \o CollapseSpaces(Tail(s))

normalize_title(title) ==
    LET t == Strip(Lower(title))
        cleaned == [i \in 1..Len(t) |->
                      IF t[i] \in LowerLetters \cup Digits \/ IsSpace(t[i]) THEN t[i] ELSE " "]
    IN  CollapseSpaces(cleaned)

Unknown == <<"u", "n", "k", "n", "o", "w", "n">>

\* re.search(r"(19|20)\d{2}", date_text): the leftmost match
year_bucket(date_text) ==
    IF date_text = None \/ date_text = <<>> THEN Unknown
    ELSE LET hits == {i \in 1..(Len(date_text) - 3) :
                        /\ SubSeq(date_text, i, i + 1) \in {<<"1", "9">>, <<"2", "0">>}
                        /\ date_text[i + 2] \in Digits
                        /\ date_text[i + 3] \in Digits}
         IN  IF hits = {} THEN Unknown
             ELSE LET i == CHOOSE h \in hits : \A g \in hits : h <= g
                  IN  SubSeq(date_text, i, i + 3)

KeyName(key) ==
    CASE key = "doi" -> <<"d", "o", "i">>
      [] key = "pmid" -> <<"p", "m", "i", "d">>
      [] key = "nct_id" -> <<"n", "c", "t", "_", "i", "d">>

\* hashlib.sha1(raw).hexdigest()[:16]: the digest is modelled as free of
\* collisions, so it is represented by the text it digests
Sha1Hex16(raw) == raw

\* as fingerprint_item, but the PMID is looked at before the DOI
fingerprint_item_pmid_first(item) ==
    LET val(key) == Lower(Strip(OrEmpty(item[key])))
    IN  IF val("pmid") # <<>> THEN KeyName("pmid") \o <<":">> \o val("pmid")
        ELSE IF val("doi") # <<>> THEN KeyName("doi") \o <<":">> \o val("doi")
        ELSE IF val("nct_id") # <<>> THEN KeyName("nct_id") \o <<":">> \o val("nct_id")
        ELSE LET tnorm == normalize_title(item.title)
                 y == year_bucket(IF OrEmpty(item.published_at) # <<>>
                                  THEN item.published_at ELSE item.updated_at)
                 raw == <<"t", "i", "t", "l", "e", ":">> \o tnorm \o <<"|", "y", "e", "a", "r", ":">> \o y
             IN  <<"t", "i", "t", "l", "e", "y", "e", "a", "r", ":">> \o Sha1Hex16(raw)

fingerprint_item(item) ==
    LET val(key) == Lower(Strip(OrEmpty(item[key])))
    IN  IF val("doi") # <<>> THEN KeyName("doi") \o <<":">> \o val("doi")
        ELSE IF val("pmid") # <<>> THEN KeyName("pmid") \o <<":">> \o val("pmid")
        ELSE IF val("nct_id") # <<>> THEN KeyName("nct_id") \o <<":">> \o val("nct_id")
        ELSE LET tnorm == normalize_title(item.title)
                 y == year_bucket(IF OrEmpty(item.published_at) # <<>>
                                  THEN item.published_at ELSE item.updated_at)
                 raw == <<"t", "i", "t", "l", "e", ":">> \o tnorm \o <<"|", "y", "e", "a", "r", ":">> \o y
             IN  <<"t", "i", "t", "l", "e", "y", "e", "a", "r", ":">> \o Sha1Hex16(raw)

\* fp = item.get("fingerprint") or fingerprint_item(item); item["fingerprint"] = fp
WithFingerprint(item) ==
    [item EXCEPT !.fingerprint =
        IF OrEmpty(item.fingerprint) # <<>> THEN item.fingerprint ELSE fingerprint_item(item)]

RECURSIVE DedupFrom(_, _)
DedupFrom(items, seen) ==
    IF Len(items) = 0 THEN <<>>
    ELSE LET item == WithFingerprint(items[1])
         IN  IF item.fingerprint \in seen THEN DedupFrom(Tail(items), seen)
             ELSE <<item>> \o DedupFrom(Tail(items), seen \cup {item.fingerprint})

\* as deduplicate, but the last record of each fingerprint is the one kept
deduplicate_keep_last(items) ==
    LET n == Len(items)
        kept == DedupFrom([i \in 1..n |-> items[n + 1 - i]], {})
    IN  [i \in 1..Len(kept) |-> kept[Len(kept) + 1 - i]]

deduplicate(items) == DedupFrom(items, {})

(***************************************************************************)
(* nlp.py: query expansion                                                 *)
(***************************************************************************)
STOPWORDS == {
    <<"a">>,
    <<"a", "n">>,
    <<"a", "n", "d">>,
    <<"a", "r", "e">>,
    <<"a", "s">>,
    <<"a", "t">>,
    <<"b", "e">>,
    <<"b", "y">>,
    <<"f", "o", "r">>,
    <<"f", "r", "o", "m">>,
    <<"i", "n">>,
    <<"i", "n", "t", "o">>,
    <<"i", "s">>,
    <<"i", "t">>,
    <<"o", "f">>,
    <<"o", "n">>,
    <<"o", "r">>,
    <<"t", "h", "a", "t">>,
    <<"t", "h", "e">>,
    <<"t", "o">>,
    <<"w", "i", "t", "h">>,
    <<"w", "i", "t", "h", "o", "u", "t">>,
    <<"v", "s">>,
    <<"v", "e", "r", "s", "u", "s">>,
    <<"s", "t", "u", "d", "y">>,
    <<"t", "r", "i", "a", "l">>,
    <<"t", "r", "i", "a", "l", "s">>,
    <<"c", "a", "n", "c", "e", "r">>,
    <<"o", "n", "c", "o", "l", "o", "g", "y">>
}

\* One entry per compiled pattern: the alternatives of the regular expression
\* (lower-cased literal, \b required before, \b required after; an optional
\* separator [-\s]? is spelled out as nothing, "-" or " ") and its terms.
CONCEPT_PATTERNS == <<
    [alts |-> {
        [text |-> <<"n", "s", "c", "l", "c">>, wb_start |-> TRUE, wb_end |-> TRUE],
        [text |-> <<"n", "o", "n", "s", "m", "a", "l", "l", " ", "c", "e", "l", "l", " ", "l", "u", "n", "g", " ", "c", "a", "n", "c", "e", "r">>, wb_start |-> TRUE, wb_end |-> TRUE],
        [text |-> <<"n", "o", "n", "-", "s", "m", "a", "l", "l", " ", "c", "e", "l", "l", " ", "l", "u", "n", "g", " ", "c", "a", "n", "c", "e", "r">>, wb_start |-> TRUE, wb_end |-> TRUE],
        [text |-> <<"n", "o", "n", " ", "s", "m", "a", "l", "l", " ", "c", "e", "l", "l", " ", "l", "u", "n", "g", " ", "c", "a", "n", "c", "e", "r">>, wb_start |-> TRUE, wb_end |-> TRUE]},
     terms |-> <<<<"N", "S", "C", "L", "C">>, <<"n", "o", "n", "-", "s", "m", "a", "l", "l", " ", "c", "e", "l", "l", " ", "l", "u", "n", "g", " ", "c", "a", "n", "c", "e", "r">>>>],
    [alts |-> {
        [text |-> <<"s", "c", "l", "c">>, wb_start |-> TRUE, wb_end |-> TRUE],
        [text |-> <<"s", "m", "a", "l", "l", " ", "c", "e", "l", "l", " ", "l", "u", "n", "g", " ", "c", "a", "n", "c", "e", "r">>, wb_start |-> TRUE, wb_end |-> TRUE]},
     terms |-> <<<<"S", "C", "L", "C">>, <<"s", "m", "a", "l", "l", " ", "c", "e", "l", "l", " ", "l", "u", "n", "g", " ", "c", "a", "n", "c", "e", "r">>>>],
    [alts |-> {
        [text |-> <<"p", "d", "1">>, wb_start |-> TRUE, wb_end |-> TRUE],
        [text |-> <<"p", "d", "-", "1">>, wb_start |-> TRUE, wb_end |-> TRUE]},
     terms |-> <<<<"P", "D", "-", "1">>, <<"p", "r", "o", "g", "r", "a", "m", "m", "e", "d", " ", "d", "e", "a", "t", "h", "-", "1">>>>],
    [alts |-> {
        [text |-> <<"p", "d", "l", "1">>, wb_start |-> TRUE, wb_end |-> TRUE],
        [text |-> <<"p", "d", "-", "l", "1">>, wb_start |-> TRUE, wb_end |-> TRUE]},
     terms |-> <<<<"P", "D", "-", "L", "1">>, <<"p", "r", "o", "g", "r", "a", "m", "m", "e", "d", " ", "d", "e", "a", "t", "h", "-", "l", "i", "g", "a", "n", "d", " ", "1">>>>],
    [alts |-> {
        [text |-> <<"c", "h", "e", "c", "k", "p", "o", "i", "n", "t", " ", "i", "n", "h", "i", "b", "i", "t", "o", "r">>, wb_start |-> TRUE, wb_end |-> FALSE]},
     terms |-> <<<<"c", "h", "e", "c", "k", "p", "o", "i", "n", "t", " ", "i", "n", "h", "i", "b", "i", "t", "o", "r">>, <<"i", "m", "m", "u", "n", "e", " ", "c", "h", "e", "c", "k", "p", "o", "i", "n", "t", " ", "b", "l", "o", "c", "k", "a", "d", "e">>>>],
    [alts |-> {
        [text |-> <<"c", "a", "r", "t">>, wb_start |-> TRUE, wb_end |-> TRUE],
        [text |-> <<"c", "a", "r", "-", "t">>, wb_start |-> TRUE, wb_end |-> TRUE],
        [text |-> <<"c", "a", "r", " ", "t">>, wb_start |-> TRUE, wb_end |-> TRUE]},
     terms |-> <<<<"C", "A", "R", "-", "T">>, <<"c", "h", "i", "m", "e", "r", "i", "c", " ", "a", "n", "t", "i", "g", "e", "n", " ", "r", "e", "c", "e", "p", "t", "o", "r", " ", "T", " ", "c", "e", "l", "l">>>>],
    [alts |-> {
        [text |-> <<"i", "o">>, wb_start |-> TRUE, wb_end |-> TRUE],
        [text |-> <<"i", "m", "m", "u", "n", "o", "t", "h", "e", "r", "a", "p", "y">>, wb_start |-> TRUE, wb_end |-> TRUE]},
     terms |-> <<<<"i", "m", "m", "u", "n", "o", "t", "h", "e", "r", "a", "p", "y">>, <<"i", "m", "m", "u", "n", "e", " ", "t", "h", "e", "r", "a", "p", "y">>>>],
    [alts |-> {
        [text |-> <<"p", "n", "e", "u", "m", "o", "n", "i", "t", "i", "s">>, wb_start |-> TRUE, wb_end |-> TRUE]},
     terms |-> <<<<"p", "n", "e", "u", "m", "o", "n", "i", "t", "i", "s">>, <<"i", "m", "m", "u", "n", "e", "-", "r", "e", "l", "a", "t", "e", "d", " ", "a", "d", "v", "e", "r", "s", "e", " ", "e", "v", "e", "n", "t">>>>],
    [alts |-> {
        [text |-> <<"i", "a", "e">>, wb_start |-> TRUE, wb_end |-> TRUE],
        [text |-> <<"i", "r", "a", "e">>, wb_start |-> TRUE, wb_end |-> TRUE],
        [text |-> <<"i", "m", "m", "u", "n", "e", "r", "e", "l", "a", "t", "e", "d", " ", "a", "d", "v", "e", "r", "s", "e">>, wb_start |-> TRUE, wb_end |-> FALSE],
        [text |-> <<"i", "m", "m", "u", "n", "e", "-", "r", "e", "l", "a", "t", "e", "d", " ", "a", "d", "v", "e", "r", "s", "e">>, wb_start |-> TRUE, wb_end |-> FALSE],
        [text |-> <<"i", "m", "m", "u", "n", "e", " ", "r", "e", "l", "a", "t", "e", "d", " ", "a", "d", "v", "e", "r", "s", "e">>, wb_start |-> TRUE, wb_end |-> FALSE]},
     terms |-> <<<<"i", "m", "m", "u", "n", "e", "-", "r", "e", "l", "a", "t", "e", "d", " ", "a", "d", "v", "e", "r", "s", "e", " ", "e", "v", "e", "n", "t">>, <<"i", "r", "A", "E">>>>],
    [alts |-> {
        [text |-> <<"o", "s">>, wb_start |-> TRUE, wb_end |-> TRUE],
        [text |-> <<"o", "v", "e", "r", "a", "l", "l", " ", "s", "u", "r", "v", "i", "v", "a", "l">>, wb_start |-> TRUE, wb_end |-> TRUE]},
     terms |-> <<<<"o", "v", "e", "r", "a", "l", "l", " ", "s", "u", "r", "v", "i", "v", "a", "l">>, <<"O", "S">>>>],
    [alts |-> {
        [text |-> <<"p", "f", "s">>, wb_start |-> TRUE, wb_end |-> TRUE],
        [text |-> <<"p", "r", "o", "g", "r", "e", "s", "s", "i", "o", "n", "f", "r", "e", "e", " ", "s", "u", "r", "v", "i", "v", "a", "l">>, wb_start |-> TRUE, wb_end |-> TRUE],
        [text |-> <<"p", "r", "o", "g", "r", "e", "s", "s", "i", "o", "n", "-", "f", "r", "e", "e", " ", "s", "u", "r", "v", "i", "v", "a", "l">>, wb_start |-> TRUE, wb_end |-> TRUE],
        [text |-> <<"p", "r", "o", "g", "r", "e", "s", "s", "i", "o", "n", " ", "f", "r", "e", "e", " ", "s", "u", "r", "v", "i", "v", "a", "l">>, wb_start |-> TRUE, wb_end |-> TRUE]},
     terms |-> <<<<"p", "r", "o", "g", "r", "e", "s", "s", "i", "o", "n", "-", "f", "r", "e", "e", " ", "s", "u", "r", "v", "i", "v", "a", "l">>, <<"P", "F", "S">>>>],
    [alts |-> {
        [text |-> <<"o", "r", "r">>, wb_start |-> TRUE, wb_end |-> TRUE],
        [text |-> <<"o", "b", "j", "e", "c", "t", "i", "v", "e", " ", "r", "e", "s", "p", "o", "n", "s", "e", " ", "r", "a", "t", "e">>, wb_start |-> TRUE, wb_end |-> TRUE]},
     terms |-> <<<<"o", "b", "j", "e", "c", "t", "i", "v", "e", " ", "r", "e", "s", "p", "o", "n", "s", "e", " ", "r", "a", "t", "e">>, <<"O", "R", "R">>>>],
    [alts |-> {
        [text |-> <<"t", "r", "i", "p", "l", "e", "n", "e", "g", "a", "t", "i", "v", "e">>, wb_start |-> TRUE, wb_end |-> TRUE],
        [text |-> <<"t", "r", "i", "p", "l", "e", "-", "n", "e", "g", "a", "t", "i", "v", "e">>, wb_start |-> TRUE, wb_end |-> TRUE],
        [text |-> <<"t", "r", "i", "p", "l", "e", " ", "n", "e", "g", "a", "t", "i", "v", "e">>, wb_start |-> TRUE, wb_end |-> TRUE],
        [text |-> <<"t", "n", "b", "c">>, wb_start |-> TRUE, wb_end |-> TRUE]},
     terms |-> <<<<"t", "r", "i", "p", "l", "e", "-", "n", "e", "g", "a", "t", "i", "v", "e", " ", "b", "r", "e", "a", "s", "t", " ", "c", "a", "n", "c", "e", "r">>, <<"T", "N", "B", "C">>>>],
    [alts |-> {
        [text |-> <<"h", "e", "r", "2">>, wb_start |-> TRUE, wb_end |-> TRUE]},
     terms |-> <<<<"H", "E", "R", "2">>, <<"E", "R", "B", "B", "2">>>>],
    [alts |-> {
        [text |-> <<"c", "r", "c">>, wb_start |-> TRUE, wb_end |-> TRUE],
        [text |-> <<"c", "o", "l", "o", "r", "e", "c", "t", "a", "l">>, wb_start |-> TRUE, wb_end |-> TRUE]},
     terms |-> <<<<"c", "o", "l", "o", "r", "e", "c", "t", "a", "l", " ", "c", "a", "n", "c", "e", "r">>, <<"C", "R", "C">>>>]
>>

\* \b at offset k of s (between s[k] and s[k+1])
Boundary(s, k) ==
    (k > 0 /\ IsWordChar(s[k])) # (k < Len(s) /\ IsWordChar(s[k + 1]))

\* re.search of one alternative, ignoring case
SearchAlt(s, a) ==
    \E i \in 0..(Len(s) - Len(a.text)) :
        /\ SubSeq(Lower(s), i + 1, i + Len(a.text)) = a.text
        /\ a.wb_start => Boundary(s, i)
        /\ a.wb_end => Boundary(s, i + Len(a.text))

\* [A-Za-z0-9\-\+]
IsTokenChar(c) == c \in LowerLetters \cup UpperLetters \cup Digits \cup {"-", "+"}

\* re.findall(r"[A-Za-z0-9\-\+]{3,}", s): the maximal runs of three or more
RECURSIVE FindWords(_, _)
FindWords(s, run) ==
    IF Len(s) = 0 THEN (IF Len(run) >= 3 THEN <<run>> ELSE <<>>)
    ELSE IF IsTokenChar(s[1]) THEN FindWords(Tail(s), Append(run, s[1]))
    ELSE (IF Len(run) >= 3 THEN <<run>> ELSE <<>>) \o FindWords(Tail(s), <<>>)

_normalize_token(token) ==
    LET t == Lower(token)
    IN  Strip(SelectSeq(t, LAMBDA c : c \in LowerLetters \cup Digits \cup {"-", "+"}))

IsDigitStr(s) == Len(s) > 0 /\ \A i \in 1..Len(s) : s[i] \in Digits

RECURSIVE KeywordsFrom(_, _, _)
KeywordsFrom(words, out, max_terms) ==
    IF Len(words) = 0 \/ Len(out) >= max_terms THEN out
    ELSE LET t == _normalize_token(words[1])
         IN  IF t = <<>> \/ t \in STOPWORDS \/ IsDigitStr(t) \/ (\E i \in 1..Len(out) : out[i] = t)
             THEN KeywordsFrom(Tail(words), out, max_terms)
             ELSE KeywordsFrom(Tail(words), Append(out, t), max_terms)

extract_keywords(query, max_terms) == KeywordsFrom(FindWords(Lower(query), <<>>), <<>>, max_terms)

RECURSIVE ConceptsFrom(_, _, _)
ConceptsFrom(query, k, groups) ==
    IF k > Len(CONCEPT_PATTERNS) THEN groups
    ELSE LET p == CONCEPT_PATTERNS[k]
             hit == \E a \in p.alts : SearchAlt(query, a)
             seen == \E i \in 1..Len(groups) : groups[i] = p.terms
         IN  ConceptsFrom(query, k + 1, IF hit /\ ~seen THEN Append(groups, p.terms) ELSE groups)

_concept_groups(query) == ConceptsFrom(query, 1, <<>>)

\* the part of build_search_queries the pipeline reads back: keywords and
\* concepts (paper_query and trial_query only travel to the connectors)
build_search_queries(user_query) ==
    LET raw == Strip(user_query)
    IN  IF raw = <<>> THEN [keywords |-> <<>>, concepts |-> <<>>]
        ELSE [keywords |-> extract_keywords(raw, 10), concepts |-> _concept_groups(raw)]

(***************************************************************************)
(* services/run_pipeline.py: pure helpers                                  *)
(***************************************************************************)
build_sources_key(options) ==
    LET selected ==
            (IF options.include_papers THEN <<"papers">> ELSE <<>>)
         \o (IF options.include_trials THEN <<"trials">> ELSE <<>>)
         \o (IF options.include_preprints THEN <<"preprints">> ELSE <<>>)
         \o (IF options.include_journal_rss THEN <<"journal_rss">> ELSE <<>>)
         \o (IF options.include_fda_approvals THEN <<"fda">> ELSE <<>>)
    IN  IF selected # <<>> THEN selected ELSE <<"none">>

QueryKeyLen == 180

_query_key(query) == <<"q", "u", "e", "r", "y", ":">> \o Prefix(Lower(Strip(query)), QueryKeyLen)

\* f"{v}": None prints as the text None
FStr(v) == IF v = None THEN <<"N", "o", "n", "e">> ELSE v

AnyContains(text, terms) == \E t \in terms : Contains(text, t)

_apply_filters_include(item, options) ==
    LET text == Lower(FStr(item.title) \o <<" ">> \o FStr(item.abstract_or_text))
    IN  /\ options.phase_2_3_only =>
              AnyContains(text, {<<"p", "h", "a", "s", "e", " ", "i", "i">>, <<"p", "h", "a", "s", "e", " ", "2">>, <<"p", "h", "a", "s", "e", " ", "i", "i", "i">>, <<"p", "h", "a", "s", "e", " ", "3">>})
        /\ options.rct_meta_only =>
              AnyContains(text, {<<"r", "a", "n", "d", "o", "m", "i", "z", "e", "d">>, <<"r", "c", "t">>, <<"m", "e", "t", "a", "-", "a", "n", "a", "l", "y", "s", "i", "s">>, <<"s", "y", "s", "t", "e", "m", "a", "t", "i", "c", " ", "r", "e", "v", "i", "e", "w">>})

_apply_filters(items, options) == SelectSeq(items, LAMBDA i : _apply_filters_include(i, options))

_item_search_blob(item) ==
    Lower(OrEmpty(item.title) \o <<" ">> \o OrEmpty(item.abstract_or_text) \o <<" ">>
          \o OrEmpty(item.conditions) \o <<" ">> \o OrEmpty(item.interventions) \o <<" ">>
          \o OrEmpty(item.primary_endpoints) \o <<" ">> \o OrEmpty(item.study_type) \o <<" ">>
          \o OrEmpty(item.phase))

_contains_query_term(blob, term) ==
    LET token == Lower(Strip(OrEmpty(term)))
    IN  IF token = <<>> THEN FALSE
        ELSE IF IsAlnum(token)
             THEN \E i \in 0..(Len(blob) - Len(token)) :
                      /\ SubSeq(blob, i + 1, i + Len(token)) = token
                      /\ Boundary(blob, i)
                      /\ Boundary(blob, i + Len(token))
             ELSE Contains(blob, token)

_is_search_relevant(item, query_context) ==
    LET blob == _item_search_blob(item)
        raw_query == Lower(Strip(query_context.raw_query))
    IN  IF Strip(blob) = <<>> THEN FALSE
        ELSE \/ \E g \in 1..Len(query_context.concepts) :
                    \E t \in 1..Len(query_context.concepts[g]) :
                        _contains_query_term(blob, query_context.concepts[g][t])
             \/ \E k \in 1..Len(query_context.keywords) :
                    _contains_query_term(blob, query_context.keywords[k])
             \/ (raw_query # <<>> /\ Len(raw_query) >= 4 /\ Contains(blob, raw_query))

(***************************************************************************)
(* Inputs: what the connectors may return and what the callers may ask     *)
(***************************************************************************)
Payload(title, doi, pmid, nct_id, published_at) ==
    [title |-> title, abstract_or_text |-> <<>>, doi |-> doi, pmid |-> pmid, nct_id |-> nct_id,
     published_at |-> published_at, updated_at |-> None, conditions |-> None,
     interventions |-> None, primary_endpoints |-> None, study_type |-> None, phase |-> None]

\* two spellings of one publication (same DOI up to case and padding, another
\* title) and a record known by its PMID only, off the topic of the queries
PayloadA == Payload(<<"O", "s", " ", "A", "b", "c">>, <<"1", "/", "X">>, <<"7">>, None, <<"2", "0", "2", "0">>)

PayloadB == Payload(<<"o", "s", " ", "a", "b", "c", "!">>, <<" ", "1", "/", "x">>, None, None, None)

PayloadC == Payload(<<"x", "y", "z">>, None, <<"7">>, None, None)

Pool == {PayloadA, PayloadB, PayloadC}

\* another publication on the topic of the queries
PayloadD == Payload(<<"a", "b", "c", " ", "2">>, None, <<"8">>, None, None)


MODE_ALL == "All"

MODE_FELLOW == "Fellow"

\* incremental_cap_days: 0 stands for None (both are falsy in the code);
\* max_run_seconds: 0 switches the budget off
RunOptions(mode_name, days_back, papers, trials, fda, max_run_seconds, incremental_cap_days, force_full_refresh) ==
    [mode_name |-> mode_name, days_back |-> days_back,
     include_trials |-> trials, include_papers |-> papers, include_preprints |-> FALSE,
     include_journal_rss |-> FALSE, include_fda_approvals |-> fda,
     phase_2_3_only |-> FALSE, rct_meta_only |-> FALSE,
     enrich_citations |-> FALSE, enable_semantic_scholar |-> FALSE,
     max_run_seconds |-> max_run_seconds, incremental_cap_days |-> incremental_cap_days,
     force_full_refresh |-> force_full_refresh]

\* the requested window of every call of the model, in days
RequestedDays == 3

\* one call in detail: one or three connector calls, with and without a budget
OptionChoices ==
    { RunOptions(MODE_ALL, RequestedDays, p, TRUE, FALSE, b, 0, FALSE) : p \in BOOLEAN, b \in {0, 1} }

\* two callers: two modes, one connector call, with and without a budget
ConcOptionChoices ==
    { RunOptions(MODE_ALL, RequestedDays, FALSE, TRUE, FALSE, 0, 0, FALSE),
      RunOptions(MODE_FELLOW, RequestedDays, FALSE, TRUE, FALSE, 1, 0, FALSE) }

\* a history of calls: two modes and two source mixes
LedgerOptionChoices ==
    { RunOptions(MODE_ALL, RequestedDays, FALSE, TRUE, FALSE, 0, 0, FALSE),
      RunOptions(MODE_FELLOW, RequestedDays, FALSE, TRUE, FALSE, 0, 0, FALSE),
      RunOptions(MODE_ALL, RequestedDays, FALSE, TRUE, TRUE, 0, 0, FALSE) }

Immunotherapy == <<"I", "O">>

PipelineScopes == {<<"lung", Immunotherapy>>}

QueryBlank == <<" ">>

QueryAbc == <<"a", "b", "c">>

QueryAbcPadded == <<" ", "A", "B", "C">>

QueryChoices == {QueryBlank, QueryAbc}

LedgerQueryChoices == {QueryAbc, QueryAbcPadded}

(***************************************************************************)
(* State                                                                   *)
(***************************************************************************)
Procs == {"p1", "p2"}

VARIABLES
    now,           \* wall clock, datetime.now(timezone.utc), in ticks
    ledger,        \* table run_history, row i has id i
    finish_calls,  \* per run id, how many times finish_run was applied to it
    items,         \* table items
    next_item_id,  \* AUTOINCREMENT counter of table items
    citation_cache, \* table citation_cache
    default_weights, \* scoring.DEFAULT_WEIGHTS, a module-level dict
    pc,            \* where each caller stands
    frame,         \* the local variables of each caller's run
    result         \* what the call returned or raised

vars == <<now, ledger, finish_calls, items, next_item_id, citation_cache, default_weights,
         pc, frame, result>>

(***************************************************************************)
(* db.py                                                                   *)
(***************************************************************************)
\* as create_run, but the row is not marked as running
create_run_not_running(rows, specialty, subcategory, mode_name, sources_key, resolved_days_back, force_full_refresh, t) ==
    Append(rows, [id |-> Len(rows) + 1, specialty |-> specialty, subcategory |-> subcategory,
                  mode_name |-> mode_name, sources_key |-> sources_key,
                  resolved_days_back |-> resolved_days_back,
                  force_full_refresh |-> force_full_refresh,
                  started_at |-> t, finished_at |-> NoTime, status |-> "success",
                  ingested_count |-> 0, deduped_count |-> 0, error_text |-> NoText])

create_run(rows, specialty, subcategory, mode_name, sources_key, resolved_days_back, force_full_refresh, t) ==
    Append(rows, [id |-> Len(rows) + 1, specialty |-> specialty, subcategory |-> subcategory,
                  mode_name |-> mode_name, sources_key |-> sources_key,
                  resolved_days_back |-> resolved_days_back,
                  force_full_refresh |-> force_full_refresh,
                  started_at |-> t, finished_at |-> NoTime, status |-> "running",
                  ingested_count |-> 0, deduped_count |-> 0, error_text |-> NoText])

\* as finish_run, but the UPDATE has lost its WHERE id = ? clause
finish_run_every_row(rows, run_id, status, ingested_count, deduped_count, error_text, t) ==
    [i \in 1..Len(rows) |->
        [rows[i] EXCEPT !.finished_at = t, !.status = status,
                        !.ingested_count = ingested_count,
                        !.deduped_count = deduped_count, !.error_text = error_text]]

finish_run(rows, run_id, status, ingested_count, deduped_count, error_text, t) ==
    [i \in 1..Len(rows) |->
        IF rows[i].id = run_id
        THEN [rows[i] EXCEPT !.finished_at = t, !.status = status,
                             !.ingested_count = ingested_count,
                             !.deduped_count = deduped_count, !.error_text = error_text]
        ELSE rows[i]]

\* COALESCE(finished_at, started_at)
RunSortKey(r) == IF r.finished_at # NoTime THEN r.finished_at ELSE r.started_at

\* as SuccessfulRuns, but the WHERE clause has no mode_name = ? condition
SuccessfulRuns_any_mode(rows, specialty, subcategory, mode_name, sources_key) ==
    {i \in 1..Len(rows) :
        /\ rows[i].specialty = specialty
        /\ rows[i].subcategory = subcategory
        /\ rows[i].status = "success"
        /\ rows[i].sources_key = sources_key}

\* the rows the WHERE clause keeps
SuccessfulRuns(rows, specialty, subcategory, mode_name, sources_key) ==
    {i \in 1..Len(rows) :
        /\ rows[i].specialty = specialty
        /\ rows[i].subcategory = subcategory
        /\ rows[i].status = "success"
        /\ rows[i].mode_name = mode_name
        /\ rows[i].sources_key = sources_key}

\* ORDER BY COALESCE(finished_at, started_at) DESC LIMIT 1: the set of row ids
\* the query may return (SQL leaves the order of equal keys open); empty when
\* no row matches
get_last_successful_run(rows, specialty, subcategory, mode_name, sources_key) ==
    LET match == SuccessfulRuns(rows, specialty, subcategory, mode_name, sources_key)
    IN  {i \in match : \A j \in match : RunSortKey(rows[i]) >= RunSortKey(rows[j])}

\* a row of table items; by_specialty_run only records that run_pipeline has
\* written the row under a specialty/subcategory scope
ItemRow(id, item, created_at, last_seen_at) ==
    [id |-> id, specialty |-> item.specialty, subcategory |-> item.subcategory,
     mode_name |-> item.mode_name, source |-> item.source, title |-> item.title,
     published_at |-> item.published_at, updated_at |-> item.updated_at,
     pmid |-> item.pmid, doi |-> item.doi, nct_id |-> item.nct_id,
     abstract_or_text |-> item.abstract_or_text,
     citations |-> item.citations, citations_source |-> item.citations_source,
     fingerprint |-> item.fingerprint,
     created_at |-> created_at, last_seen_at |-> last_seen_at,
     by_specialty_run |-> (item.specialty # "search")]

\* as upsert_item, but a plain INSERT without the ON CONFLICT clause (and
\* without the UNIQUE constraint that would reject the second row)
upsert_item_plain_insert(rows, id, item, t) ==
    rows \cup {ItemRow(id + Cardinality(rows), item, t, t)}

\* INSERT ... ON CONFLICT(fingerprint) DO UPDATE SET ...: the table afterwards
upsert_item(rows, id, item, t) ==
    IF \E r \in rows : r.fingerprint = item.fingerprint
    THEN {IF r.fingerprint = item.fingerprint
          THEN [ItemRow(r.id, item, r.created_at, t) EXCEPT
                   !.by_specialty_run = r.by_specialty_run \/ item.specialty # "search"]
          ELSE r : r \in rows}
    ELSE rows \cup {ItemRow(id, item, t, t)}

\* the AUTOINCREMENT counter after upsert_item
upsert_next_id(rows, id, item) ==
    IF \E r \in rows : r.fingerprint = item.fingerprint THEN id ELSE id + 1

\* as clear_scope_items, but nothing is deleted
clear_scope_items_none(rows, specialty, subcategory) == rows

\* DELETE FROM items WHERE specialty = ? AND subcategory = ?
clear_scope_items(rows, specialty, subcategory) ==
    {r \in rows : ~(r.specialty = specialty /\ r.subcategory = subcategory)}

(***************************************************************************)
(* ingest/openalex.py, ingest/semanticscholar.py, db.py: citation counts   *)
(***************************************************************************)
MAX_RETRIES == 2

CITATION_CACHE_TTL_DAYS == 14

\* None where a citation count is expected
NoCount == -1

\* the answers of one HTTP attempt: a status to retry on (or an exception), a
\* 404, and a 200 whose body carries an integer count or none
HttpRetry == [status |-> 503, count |-> NoCount]

Http404 == [status |-> 404, count |-> NoCount]

HttpOk(count) == [status |-> 200, count |-> count]

HttpResponses == {HttpRetry, Http404, HttpOk(NoCount), HttpOk(0), HttpOk(4)}

\* the answers of the attempts of one lookup, one per attempt; the attempts
\* after the one that was answered are not made
ResponseChoices ==
    {r \in [1..MAX_RETRIES -> HttpResponses] :
        \A a, b \in 1..MAX_RETRIES : (a < b /\ r[a] # HttpRetry) => r[b] = HttpRetry}

\* datetime.now(timezone.utc) - dt <= timedelta(days=ttl_days), at time t
_is_fresh(fetched_at, ttl_days, t) == t - fetched_at <= ttl_days * TicksPerDay

\* re.sub("^" + prefix, "", s) for a literal prefix
RemovePrefix(s, prefix) ==
    IF Len(s) >= Len(prefix) /\ SubSeq(s, 1, Len(prefix)) = prefix
    THEN SubSeq(s, Len(prefix) + 1, Len(s))
    ELSE s

\* the prefixes that ^https?://(dx\.)?doi\.org/ matches
DoiUrlPrefixes ==
    <<<<"h", "t", "t", "p", "s", ":", "/", "/", "d", "x", ".", "d", "o", "i", ".", "o", "r", "g", "/">>,
      <<"h", "t", "t", "p", ":", "/", "/", "d", "x", ".", "d", "o", "i", ".", "o", "r", "g", "/">>,
      <<"h", "t", "t", "p", "s", ":", "/", "/", "d", "o", "i", ".", "o", "r", "g", "/">>,
      <<"h", "t", "t", "p", ":", "/", "/", "d", "o", "i", ".", "o", "r", "g", "/">>>>

\* as _normalize_doi, but the prefixes stay
_normalize_doi_keep_prefix(doi) == Lower(Strip(doi))

_normalize_doi(doi) ==
    LET d == Lower(Strip(doi))
        matching == {k \in 1..Len(DoiUrlPrefixes) : RemovePrefix(d, DoiUrlPrefixes[k]) # d}
        no_url == IF matching = {} THEN d
                  ELSE RemovePrefix(d, DoiUrlPrefixes[CHOOSE k \in matching : TRUE])
    IN  Strip(RemovePrefix(no_url, <<"d", "o", "i", ":">>))

\* SELECT * FROM citation_cache WHERE doi = ?: the rows found
get_cached_citation(cache, doi) == {r \in cache : r.doi = Lower(doi)}

\* INSERT ... ON CONFLICT(doi) DO UPDATE SET ...: the table afterwards
set_cached_citation(cache, doi, cited_by_count, t) ==
    {r \in cache : r.doi # Lower(doi)}
        \cup {[doi |-> Lower(doi), cited_by_count |-> cited_by_count, fetched_at |-> t]}

\* the retry loop of get_citations from attempt on, and the fallback after it
RECURSIVE OpenAlexAttempts(_, _, _, _, _)
OpenAlexAttempts(cache, doi_norm, t, responses, attempt) ==
    IF attempt > MAX_RETRIES
    THEN LET cached == get_cached_citation(cache, doi_norm)
         IN  [value |-> IF cached # {} THEN (CHOOSE r \in cached : TRUE).cited_by_count ELSE NoCount,
              cache |-> cache, requests |-> MAX_RETRIES]
    ELSE LET resp == responses[attempt]
         IN  IF resp.status = 404
             THEN [value |-> NoCount, cache |-> set_cached_citation(cache, doi_norm, NoCount, t),
                   requests |-> attempt]
             ELSE IF resp.status = 200
             THEN [value |-> resp.count, cache |-> set_cached_citation(cache, doi_norm, resp.count, t),
                   requests |-> attempt]
             ELSE OpenAlexAttempts(cache, doi_norm, t, responses, attempt + 1)

\* get_citations at time t: the count returned, the table afterwards and the
\* number of outbound requests made
get_citations(cache, doi, ttl_days, t, responses) ==
    LET doi_norm == IF OrEmpty(doi) = <<>> THEN <<>> ELSE _normalize_doi(doi)
        cached == get_cached_citation(cache, doi_norm)
    IN  IF doi_norm = <<>>
        THEN [value |-> NoCount, cache |-> cache, requests |-> 0]
        ELSE IF cached # {} /\ _is_fresh((CHOOSE r \in cached : TRUE).fetched_at, ttl_days, t)
        THEN [value |-> (CHOOSE r \in cached : TRUE).cited_by_count, cache |-> cache,
              requests |-> 0]
        ELSE OpenAlexAttempts(cache, doi_norm, t, responses, 1)

\* the retry loop of get_citations_by_pmid from attempt on
RECURSIVE SemanticScholarAttempts(_, _)
SemanticScholarAttempts(responses, attempt) ==
    IF attempt > MAX_RETRIES THEN NoCount
    ELSE IF responses[attempt].status = 404 THEN NoCount
    ELSE IF responses[attempt].status = 200 THEN responses[attempt].count
    ELSE SemanticScholarAttempts(responses, attempt + 1)

get_citations_by_pmid(pmid, responses) ==
    IF OrEmpty(pmid) = <<>> \/ Strip(pmid) = <<>> THEN NoCount
    ELSE SemanticScholarAttempts(responses, 1)

(***************************************************************************)
(* scoring.py                                                              *)
(***************************************************************************)
\* the weights are whole numbers here, as are the overrides of the model
DEFAULT_WEIGHTS ==
    [phase_iii |-> 6, randomized |-> 5, meta_analysis |-> 4, phase_ii |-> 3,
     overall_survival |-> 2, progression_free_survival |-> 2, sample_size |-> 1,
     major_journal |-> 1, citations_multiplier |-> 1, preclinical_penalty |-> -4,
     case_report_penalty |-> -3, global_penalty |-> -2, include_term |-> 1,
     exclude_term |-> -1, query_exact_phrase |-> 8, query_concept |-> 3,
     query_keyword |-> 1, query_coverage |-> 2]

BOOSTS ==
    <<[key |-> "phase_iii", terms |-> <<<<"p", "h", "a", "s", "e", " ", "i", "i", "i">>, <<"p", "h", "a", "s", "e", " ", "3">>>>],
      [key |-> "randomized", terms |-> <<<<"r", "a", "n", "d", "o", "m", "i", "z", "e", "d">>, <<"r", "c", "t">>>>],
      [key |-> "meta_analysis", terms |-> <<<<"m", "e", "t", "a", "-", "a", "n", "a", "l", "y", "s", "i", "s">>, <<"s", "y", "s", "t", "e", "m", "a", "t", "i", "c", " ", "r", "e", "v", "i", "e", "w">>>>],
      [key |-> "phase_ii", terms |-> <<<<"p", "h", "a", "s", "e", " ", "i", "i">>, <<"p", "h", "a", "s", "e", " ", "2">>>>]>>

\* weight_overrides=None
NoOverrides == <<>>

_has_any(text, terms) == \E k \in 1..Len(terms) : Contains(Lower(text), Lower(terms[k]))

DigitChars == <<"0", "1", "2", "3", "4", "5", "6", "7", "8", "9">>

\* str(n) for n >= 0
RECURSIVE NatStr(_)
NatStr(n) == IF n < 10 THEN <<DigitChars[n + 1]>> ELSE NatStr(n \div 10) \o <<DigitChars[(n % 10) + 1]>>

\* str(n), as an f-string prints an int
IntStr(n) == IF n < 0 THEN <<"-">> \o NatStr(0 - n) ELSE NatStr(n)

\* int(s) for a string of digits
RECURSIVE NatOf(_)
NatOf(s) ==
    IF Len(s) = 0 THEN 0
    ELSE 10 * NatOf(SubSeq(s, 1, Len(s) - 1))
           + (CHOOSE d \in 0..9 : DigitChars[d + 1] = s[Len(s)])

\* the words of the pattern of _sample_size_boost, before \s*=\s*
SampleSizeWords == {<<"n">>, <<"e", "n", "r", "o", "l", "l", "e", "d">>, <<"p", "a", "t", "i", "e", "n", "t">>, <<"p", "a", "t", "i", "e", "n", "t", "s">>}

\* n = 250, enrolled=300, patients = 1200: a match of the pattern whose
\* number, 2 to 5 digits between word breaks, is 200 or more
_sample_size_boost(text) ==
    LET t == Lower(text)
        n == Len(t)
        Spaces(a, b) == \A i \in a..b : IsSpace(t[i])
    IN  \E eq \in {e \in 1..n : t[e] = "="} :
          /\ \E word \in SampleSizeWords, last \in 1..(eq - 1) :
                LET start == last - Len(word) + 1
                IN  /\ start >= 1
                    /\ SubSeq(t, start, last) = word
                    /\ start = 1 \/ ~IsWordChar(t[start - 1])
                    /\ Spaces(last + 1, eq - 1)
          /\ \E lo \in (eq + 1)..n, digits \in 2..5 :
                LET hi == lo + digits - 1
                IN  /\ hi <= n
                    /\ Spaces(eq + 1, lo - 1)
                    /\ IsDigitStr(SubSeq(t, lo, hi))
                    /\ hi = n \/ ~IsWordChar(t[hi + 1])
                    /\ NatOf(SubSeq(t, lo, hi)) >= 200

\* as _resolved_weights, but the overrides are written into the module's
\* dict itself
_resolved_weights_in_place(defaults, overrides) ==
    LET weights == [k \in DOMAIN defaults |->
                       IF k \in DOMAIN overrides THEN overrides[k] ELSE defaults[k]]
    IN  [weights |-> weights, defaults |-> weights]

\* the weights of a call and DEFAULT_WEIGHTS afterwards: the function works
\* on a copy, dict(DEFAULT_WEIGHTS)
_resolved_weights(defaults, overrides) ==
    [weights |-> [k \in DOMAIN defaults |->
                     IF k \in DOMAIN overrides THEN overrides[k] ELSE defaults[k]],
     defaults |-> defaults]

_contains_term(blob, term) ==
    LET t == Lower(Strip(OrEmpty(term)))
    IN  IF t = <<>> THEN FALSE
        ELSE IF IsAlnum(t)
             THEN \E i \in 0..(Len(blob) - Len(t)) :
                      /\ SubSeq(blob, i + 1, i + Len(t)) = t
                      /\ Boundary(blob, i)
                      /\ Boundary(blob, i + Len(t))
             ELSE Contains(blob, t)

\* a rule that fired: its points and its line of the explanation
Fired(points, line) == <<[points |-> points, line |-> line]>>

\* f"+{points} {label}"
PlusLine(points, label) == <<"+">> \o IntStr(points) \o <<" ">> \o label

\* f"{points} {label}"
BareLine(points, label) == IntStr(points) \o <<" ">> \o label

RECURSIVE SumPoints(_)
SumPoints(fired) == IF Len(fired) = 0 THEN 0 ELSE fired[1].points + SumPoints(Tail(fired))

RECURSIVE ConcatAll(_)
ConcatAll(seqs) == IF Len(seqs) = 0 THEN <<>> ELSE seqs[1] \o ConcatAll(Tail(seqs))

\* the rules of _query_relevance_boost that fired, in order
_query_relevance_boost(blob, query_context, w) ==
    LET raw_query == Lower(Strip(OrEmpty(query_context.raw_query)))
        concepts == query_context.concepts
        concept_hits ==
            Cardinality({g \in 1..Len(concepts) :
                            \E k \in 1..Len(concepts[g]) : _contains_term(blob, concepts[g][k])})
        keywords == {Lower(Strip(query_context.keywords[k])) : k \in 1..Len(query_context.keywords)}
                        \ {<<>>}
        keyword_hits == {k \in keywords : _contains_term(blob, k)}
        counted == Min(Cardinality(keyword_hits), 6)
    IN  (IF raw_query # <<>> /\ Len(raw_query) >= 12 /\ Contains(blob, raw_query)
         THEN Fired(w.query_exact_phrase, PlusLine(w.query_exact_phrase, <<"q", "u", "e", "r", "y", " ", "p", "h", "r", "a", "s", "e", " ", "m", "a", "t", "c", "h">>))
         ELSE <<>>)
        \o (IF concept_hits > 0
            THEN Fired(w.query_concept * concept_hits,
                       PlusLine(w.query_concept * concept_hits,
                                <<"q", "u", "e", "r", "y", " ", "c", "o", "n", "c", "e", "p", "t", " ", "m", "a", "t", "c", "h", " ", "(">> \o IntStr(concept_hits) \o <<")">>))
            ELSE <<>>)
        \o (IF keyword_hits # {}
            THEN Fired(w.query_keyword * counted,
                       PlusLine(w.query_keyword * counted,
                                <<"q", "u", "e", "r", "y", " ", "k", "e", "y", "w", "o", "r", "d", " ", "m", "a", "t", "c", "h", " ", "(">> \o IntStr(counted) \o <<")">>))
                 \o (IF Cardinality(keywords) >= 3
                        /\ 2 * Cardinality(keyword_hits) >= Cardinality(keywords)
                     THEN Fired(w.query_coverage, PlusLine(w.query_coverage, <<"q", "u", "e", "r", "y", " ", "c", "o", "v", "e", "r", "a", "g", "e">>))
                     ELSE <<>>)
            ELSE <<>>)

\* math.log1p(c) in thousandths, rounded down, for the counts of the model
Log1pMilli == (0 :> 0) @@ (4 :> 1609) @@ (7 :> 2079)

\* int(math.log1p(citations) * float(w["citations_multiplier"])) where it is
\* positive, 0 where it is not
CitationsBonus(citations, multiplier) ==
    IF multiplier > 0 THEN (Log1pMilli[citations] * multiplier) \div 1000 ELSE 0

\* the rules of score_item that fired, in the order score_item evaluates them
FiredRules(item, pack_rules, w) ==
    LET title == Lower(OrEmpty(item.title))
        text == Lower(OrEmpty(item.abstract_or_text))
        venue == Lower(OrEmpty(item.venue))
        blob == title \o <<" ">> \o text
        c_bonus == IF item.citations # NoCount /\ item.citations >= 0
                   THEN CitationsBonus(item.citations, w.citations_multiplier) ELSE 0
        penalties ==
            <<[points |-> w.preclinical_penalty,
               terms |-> <<<<"m", "o", "u", "s", "e">>, <<"m", "u", "r", "i", "n", "e">>, <<"c", "e", "l", "l", " ", "l", "i", "n", "e">>, <<"i", "n", " ", "v", "i", "t", "r", "o">>>>,
               label |-> <<"p", "r", "e", "c", "l", "i", "n", "i", "c", "a", "l", " ", "s", "i", "g", "n", "a", "l">>],
              [points |-> w.case_report_penalty, terms |-> <<<<"c", "a", "s", "e", " ", "r", "e", "p", "o", "r", "t">>>>,
               label |-> <<"c", "a", "s", "e", " ", "r", "e", "p", "o", "r", "t">>],
              [points |-> w.global_penalty, terms |-> pack_rules.global_penalty_terms,
               label |-> <<"g", "l", "o", "b", "a", "l", " ", "p", "e", "n", "a", "l", "t", "y">>]>>
    IN  ConcatAll([b \in 1..Len(BOOSTS) |->
                     IF _has_any(blob, BOOSTS[b].terms)
                     THEN Fired(w[BOOSTS[b].key], PlusLine(w[BOOSTS[b].key], BOOSTS[b].terms[1]))
                     ELSE <<>>])
        \o (IF _has_any(blob, <<<<"o", "v", "e", "r", "a", "l", "l", " ", "s", "u", "r", "v", "i", "v", "a", "l">>, <<" ", "o", "s", " ">>>>)
            THEN Fired(w.overall_survival, PlusLine(w.overall_survival, <<"o", "v", "e", "r", "a", "l", "l", " ", "s", "u", "r", "v", "i", "v", "a", "l">>))
            ELSE <<>>)
        \o (IF _has_any(blob, <<<<"p", "r", "o", "g", "r", "e", "s", "s", "i", "o", "n", "-", "f", "r", "e", "e", " ", "s", "u", "r", "v", "i", "v", "a", "l">>, <<" ", "p", "f", "s", " ">>>>)
            THEN Fired(w.progression_free_survival,
                       PlusLine(w.progression_free_survival, <<"p", "r", "o", "g", "r", "e", "s", "s", "i", "o", "n", "-", "f", "r", "e", "e", " ", "s", "u", "r", "v", "i", "v", "a", "l">>))
            ELSE <<>>)
        \o (IF _sample_size_boost(blob)
            THEN Fired(w.sample_size, PlusLine(w.sample_size, <<"s", "a", "m", "p", "l", "e", " ", "s", "i", "z", "e", " ", ">", "=", "2", "0", "0">>))
            ELSE <<>>)
        \o (IF \E j \in 1..Len(pack_rules.major_journals) :
                   Contains(venue, Lower(pack_rules.major_journals[j]))
            THEN Fired(w.major_journal, PlusLine(w.major_journal, <<"m", "a", "j", "o", "r", " ", "j", "o", "u", "r", "n", "a", "l">>))
            ELSE <<>>)
        \o (IF c_bonus > 0 THEN Fired(c_bonus, PlusLine(c_bonus, <<"c", "i", "t", "a", "t", "i", "o", "n", "s", " ", "b", "o", "n", "u", "s">>)) ELSE <<>>)
        \o ConcatAll([k \in 1..Len(penalties) |->
                        IF Len(penalties[k].terms) > 0 /\ _has_any(blob, penalties[k].terms)
                        THEN Fired(penalties[k].points, BareLine(penalties[k].points, penalties[k].label))
                        ELSE <<>>])
        \o ConcatAll([k \in 1..Len(pack_rules.include_terms) |->
                        IF Contains(blob, Lower(pack_rules.include_terms[k]))
                        THEN Fired(w.include_term,
                                   PlusLine(w.include_term,
                                            <<"i", "n", "c", "l", "u", "d", "e", " ", "t", "e", "r", "m", ":", " ">> \o pack_rules.include_terms[k]))
                        ELSE <<>>])
        \o ConcatAll([k \in 1..Len(pack_rules.exclude_terms) |->
                        IF Contains(blob, Lower(pack_rules.exclude_terms[k]))
                        THEN Fired(w.exclude_term,
                                   BareLine(w.exclude_term,
                                            <<"e", "x", "c", "l", "u", "d", "e", " ", "t", "e", "r", "m", ":", " ">> \o pack_rules.exclude_terms[k]))
                        ELSE <<>>])
        \o _query_relevance_boost(blob, pack_rules.search_query_context, w)

\* score_item: the score and the explanation returned, and the item, the
\* rules and DEFAULT_WEIGHTS after the call
score_item(item, pack_rules, weight_overrides, defaults) ==
    LET resolved == _resolved_weights(defaults, weight_overrides)
        fired == FiredRules(item, pack_rules, resolved.weights)
    IN  [score |-> SumPoints(fired), explain |-> [k \in 1..Len(fired) |-> fired[k].line],
         item |-> item, pack_rules |-> pack_rules, defaults |-> resolved.defaults]

(***************************************************************************)
(* services/run_pipeline.py: the incremental window                        *)
(***************************************************************************)
\* as CeilDiv, but rounding down
CeilDiv_floor(a, b) == a \div b

\* math.ceil(a / b) for a >= 0 and b > 0
CeilDiv(a, b) == (a + b - 1) \div b

\* as resolve_incremental_days_back, but without the force_full_refresh branch
resolve_incremental_days_back_unforced(rows, specialty, subcategory, options, t) ==
    LET cap_days == IF options.incremental_cap_days # 0
                    THEN options.incremental_cap_days ELSE options.days_back
        found == get_last_successful_run(rows, specialty, subcategory,
                                         options.mode_name, build_sources_key(options))
    IN  IF found = {}
        THEN {[days |-> Min(options.days_back, cap_days), last |-> 0, looked_up |-> TRUE]}
        ELSE {[days |-> Min(Max(1, CeilDiv(t - RunSortKey(rows[i]), TicksPerDay)), cap_days),
               last |-> i, looked_up |-> TRUE] : i \in found}

\* the (resolved days, last run id or 0 for None, ledger read or not) triples
\* resolve_incremental_days_back may return
resolve_incremental_days_back(rows, specialty, subcategory, options, t) ==
    IF options.force_full_refresh
    THEN {[days |-> options.days_back, last |-> 0, looked_up |-> FALSE]}
    ELSE LET cap_days == IF options.incremental_cap_days # 0
                         THEN options.incremental_cap_days ELSE options.days_back
             found == get_last_successful_run(rows, specialty, subcategory,
                                              options.mode_name, build_sources_key(options))
         IN  IF found = {}
             THEN {[days |-> Min(options.days_back, cap_days), last |-> 0, looked_up |-> TRUE]}
             ELSE {LET reference == RunSortKey(rows[i])
                   IN  IF reference = NoTime
                       THEN [days |-> Min(options.days_back, cap_days), last |-> i, looked_up |-> TRUE]
                       ELSE [days |-> Min(Max(1, CeilDiv(t - reference, TicksPerDay)), cap_days),
                             last |-> i, looked_up |-> TRUE]
                   : i \in found}

(***************************************************************************)
(* services/run_pipeline.py: the orchestrator                              *)
(***************************************************************************)
\* the connector calls of _ingest_for_query, in program order
Sites == <<"pubmed", "europepmc", "rss_feeds", "preprints", "europepmc_preprints",
           "clinicaltrials", "fda">>

NoSite == Len(Sites) + 1

SiteEnabled(k, options) ==
    CASE k \in {1, 2} -> options.include_papers
      [] k = 3 -> options.include_papers /\ options.include_journal_rss
      [] k \in {4, 5} -> options.include_preprints
      [] k = 6 -> options.include_trials
      [] k = 7 -> options.include_fda_approvals

\* the first call at or after position k that the options enable
NextSite(k, options) ==
    LET later == {j \in k..Len(Sites) : SiteEnabled(j, options)}
    IN  IF later = {} THEN NoSite ELSE CHOOSE j \in later : \A i \in later : j <= i

\* the source tag the connector writes into its records
SourceOf(k) ==
    CASE k = 1 -> "pubmed"
      [] k = 2 -> "europepmc"
      [] k = 3 -> "journal_rss"
      [] k \in {4, 5} -> "preprint"
      [] k = 6 -> "clinicaltrials"
      [] k = 7 -> "fda"

\* rss_feeds.search and clinicaltrials.search take no days_back
PassesDaysBack(k) == k \in {1, 2, 4, 5, 7}

NoQueryContext == [raw_query |-> <<>>, keywords |-> <<>>, concepts |-> <<>>]

\* the local variables of a connector's search call; none is running
NoSearch ==
    [connector |-> "none", limit |-> 0, got |-> 0, attempt |-> 0, token |-> FALSE,
     server |-> 0, raised |-> FALSE, done |-> FALSE]

\* no citation lookup made yet; parity tells an even number of lookups from
\* an odd one
NoLookup == [parity |-> 0, doi |-> None, value |-> NoCount, requests |-> 0]

\* the local variables of a call; fired, step_failed, calls, any_raised,
\* looked_up, last_run, enriched and lookup only record what happened; scored
\* holds the calls of score_item a caller made, with what they returned
IdleFrame ==
    [entry |-> "none", query |-> None, specialty |-> NoText, subcategory |-> None, options |-> NoText,
     requested_days |-> 0, resolved_days |-> 0, query_context |-> NoQueryContext,
     run_id |-> 0, last_run |-> 0, looked_up |-> FALSE, elapsed |-> 0, site |-> 0,
     inner |-> <<>>, ingested |-> <<>>, unique |-> <<>>, idx |-> 0, persisted |-> 0,
     fired |-> FALSE, step_failed |-> FALSE, calls |-> <<>>, any_raised |-> FALSE,
     search |-> NoSearch, enriched |-> <<>>, lookup |-> NoLookup, scored |-> <<>>]

NoResult ==
    [kind |-> "none", run_id |-> 0, status |-> NoText, ingested_count |-> 0,
     deduped_count |-> 0, timed_out |-> FALSE]

\* time.monotonic() - started after a step that took d seconds; the clock is
\* read only when a budget is set, and stops mattering once it is past it
Advance(f, d) ==
    IF f.options.max_run_seconds = 0 THEN f.elapsed
    ELSE Min(f.elapsed + d, f.options.max_run_seconds + 1)

\* as check_timeout, but the check never raises
check_timeout_never(f) == FALSE

\* _check_timeout raises
check_timeout(f) ==
    f.options.max_run_seconds # 0 /\ f.elapsed > f.options.max_run_seconds

Init ==
    /\ now = 0
    /\ ledger = <<>>
    /\ finish_calls = <<>>
    /\ items = {}
    /\ next_item_id = 1
    /\ citation_cache = {}
    /\ default_weights = DEFAULT_WEIGHTS
    /\ pc = [p \in Procs |-> "idle"]
    /\ frame = [p \in Procs |-> IdleFrame]
    /\ result = [p \in Procs |-> NoResult]

\* finish_run on the caller's run, then return or raise: the end of every path
Finish(p, f, kind, status, ingested_count, deduped_count, error_text) ==
    /\ ledger' = finish_run(ledger, f.run_id, status, ingested_count, deduped_count, error_text, now)
    /\ finish_calls' = [finish_calls EXCEPT ![f.run_id] = @ + 1]
    /\ result' = [result EXCEPT ![p] =
                    [kind |-> kind, run_id |-> f.run_id, status |-> status,
                     ingested_count |-> ingested_count, deduped_count |-> deduped_count,
                     timed_out |-> (status = "timeout")]]
    /\ frame' = [frame EXCEPT ![p] = f]
    /\ pc' = [pc EXCEPT ![p] = "done"]

\* as ExceptTimeout, but the timeout falls into the except Exception clause
ExceptTimeout_as_failure(p, f) ==
    Finish(p, f, "raised", "failed", Len(f.ingested), 0, "Timed out")

\* except TimeoutError as exc: of run_pipeline and run_pipeline_query
ExceptTimeout(p, f) ==
    Finish(p, f, "returned", "timeout", Len(f.ingested), 0, "Timed out")

\* as ExceptException, but the handler returns an outcome instead of raising
ExceptException_swallowed(p, f) ==
    Finish(p, f, "returned", "failed", Len(f.ingested), 0, "error")

\* except Exception as exc: of run_pipeline and run_pipeline_query
ExceptException(p, f) ==
    Finish(p, f, "raised", "failed", Len(f.ingested), 0, "error")

\* a step inside the try block other than a connector call raises
StepFails(p, f) == ExceptException(p, [f EXCEPT !.step_failed = TRUE])

\* the call with its window resolved, before the run is opened
Resolved(entry, query, specialty, subcategory, options, query_context, r) ==
    [IdleFrame EXCEPT !.entry = entry, !.query = query, !.specialty = specialty, !.subcategory = subcategory,
                      !.options = [options EXCEPT !.days_back = r.days],
                      !.requested_days = options.days_back, !.resolved_days = r.days,
                      !.query_context = query_context,
                      !.last_run = r.last, !.looked_up = r.looked_up]

\* as run_pipeline_begin, but the resolver records its lookup as a run of the
\* ledger
run_pipeline_begin_recording(p, specialty, subcategory, options) ==
    /\ pc[p] = "idle"
    /\ \E r \in resolve_incremental_days_back(ledger, specialty, subcategory, options, now) :
         /\ frame' = [frame EXCEPT ![p] =
                        Resolved("run_pipeline", None, specialty, subcategory, options, NoQueryContext, r)]
         /\ ledger' = IF Len(ledger) < MaxRuns
                      THEN create_run(ledger, specialty, subcategory, options.mode_name,
                                      build_sources_key(options), r.days,
                                      options.force_full_refresh, now)
                      ELSE ledger
         /\ finish_calls' = IF Len(ledger) < MaxRuns THEN Append(finish_calls, 0) ELSE finish_calls
    /\ pc' = [pc EXCEPT ![p] = "resolved"]
    /\ result' = [result EXCEPT ![p] = NoResult]
    /\ UNCHANGED <<now, items, next_item_id, citation_cache, default_weights>>

\* run_pipeline: resolve_incremental_days_back and effective_options
run_pipeline_begin(p, specialty, subcategory, options) ==
    /\ pc[p] = "idle"
    /\ \E r \in resolve_incremental_days_back(ledger, specialty, subcategory, options, now) :
         frame' = [frame EXCEPT ![p] =
                     Resolved("run_pipeline", None, specialty, subcategory, options, NoQueryContext, r)]
    /\ pc' = [pc EXCEPT ![p] = "resolved"]
    /\ result' = [result EXCEPT ![p] = NoResult]
    /\ UNCHANGED <<now, ledger, finish_calls, items, next_item_id, citation_cache, default_weights>>

\* run_pipeline_query: the blank-query return, else
\* resolve_incremental_days_back and effective_options
run_pipeline_query_begin(p, query, options) ==
    /\ pc[p] = "idle"
    /\ LET query_text == Strip(query)
       IN  IF query_text = <<>>
           THEN /\ result' = [result EXCEPT ![p] =
                                [kind |-> "returned", run_id |-> -1, status |-> "failed",
                                 ingested_count |-> 0, deduped_count |-> 0, timed_out |-> FALSE]]
                /\ frame' = [frame EXCEPT ![p] = [IdleFrame EXCEPT !.entry = "run_pipeline_query", !.query = query]]
                /\ pc' = [pc EXCEPT ![p] = "done"]
           ELSE LET specialty == "search"
                    subcategory == _query_key(query_text)
                    query_bundle == build_search_queries(query_text)
                    query_context == [raw_query |-> query_text,
                                      keywords |-> query_bundle.keywords,
                                      concepts |-> query_bundle.concepts]
                IN  /\ \E r \in resolve_incremental_days_back(ledger, specialty, subcategory, options, now) :
                         frame' = [frame EXCEPT ![p] =
                                     Resolved("run_pipeline_query", query, specialty, subcategory,
                                              options, query_context, r)]
                    /\ pc' = [pc EXCEPT ![p] = "resolved"]
                    /\ result' = [result EXCEPT ![p] = NoResult]
    /\ UNCHANGED <<now, ledger, finish_calls, items, next_item_id, citation_cache, default_weights>>

\* db.create_run and started = time.monotonic(); run_pipeline_query clears
\* the scope first and builds its rules (which cannot fail) right after
open_run(p) ==
    /\ pc[p] = "resolved"
    /\ Len(ledger) < MaxRuns
    /\ LET f == frame[p]
       IN  /\ items' = IF f.entry = "run_pipeline_query"
                       THEN clear_scope_items(items, f.specialty, f.subcategory)
                       ELSE items
           /\ ledger' = create_run(ledger, f.specialty, f.subcategory, f.options.mode_name,
                                   build_sources_key(f.options), f.resolved_days,
                                   f.options.force_full_refresh, now)
           /\ finish_calls' = Append(finish_calls, 0)
           /\ frame' = [frame EXCEPT ![p] =
                          [f EXCEPT !.run_id = Len(ledger) + 1,
                                    !.site = IF f.entry = "run_pipeline_query"
                                             THEN NextSite(1, f.options) ELSE 0]]
           /\ pc' = [pc EXCEPT ![p] = IF f.entry = "run_pipeline_query" THEN "ingest" ELSE "get_pack"]
    /\ UNCHANGED <<now, next_item_id, citation_cache, default_weights, result>>

\* rules = packs.get_pack(specialty, subcategory): the pack is found (after d
\* seconds), or the lookup raises (no pack file, no such subcategory)
get_pack(p) ==
    /\ pc[p] = "get_pack"
    /\ \E found \in BOOLEAN :
         IF found
         THEN /\ \E d \in 0..MaxStepSeconds :
                   frame' = [frame EXCEPT ![p] =
                               [frame[p] EXCEPT !.site = NextSite(1, frame[p].options),
                                                !.elapsed = Advance(frame[p], d)]]
              /\ pc' = [pc EXCEPT ![p] = "ingest"]
              /\ UNCHANGED <<ledger, finish_calls, result>>
         ELSE StepFails(p, frame[p])
    /\ UNCHANGED <<now, items, next_item_id, citation_cache, default_weights>>

Raises == [raises |-> TRUE, records |-> <<>>]

Returns(records) == [raises |-> FALSE, records |-> records]

\* what a connector call may produce: it raises, it finds nothing, or it
\* returns a record of the pool
Answers(pool) == {Raises, Returns(<<>>)} \cup {Returns(<<payload>>) : payload \in pool}

\* the answers that keep the run within the bound on its records
ConnectorOutcomes(f, answers) ==
    {o \in answers : Len(f.inner) + Len(o.records) <= MaxIngested}

\* the record as _ingest_for_query appends it
Tagged(payload, k, f) ==
    [title |-> payload.title, abstract_or_text |-> payload.abstract_or_text,
     doi |-> payload.doi, pmid |-> payload.pmid, nct_id |-> payload.nct_id,
     published_at |-> payload.published_at, updated_at |-> payload.updated_at,
     conditions |-> payload.conditions, interventions |-> payload.interventions,
     primary_endpoints |-> payload.primary_endpoints, study_type |-> payload.study_type,
     phase |-> payload.phase, source |-> SourceOf(k),
     specialty |-> f.specialty, subcategory |-> f.subcategory,
     fingerprint |-> None, mode_name |-> NoText,
     citations |-> NoCount, citations_source |-> NoText]

\* the frame after the connector call at position k came back with outcome o
\* after d seconds
AfterCall(f, k, o, d) ==
    [f EXCEPT
       !.inner = f.inner \o [i \in 1..Len(o.records) |-> Tagged(o.records[i], k, f)],
       !.calls = Append(f.calls, [site |-> Sites[k],
                                  days_back |-> IF PassesDaysBack(k)
                                                THEN f.options.days_back ELSE NoTime]),
       !.any_raised = f.any_raised \/ o.raises,
       !.elapsed = Advance(f, d),
       !.site = NextSite(k + 1, f.options)]

\* as connector_call, but an exception of the connector is not caught in
\* _ingest_for_query and reaches the caller's except Exception
connector_call_uncaught(p, f, k, o, d) ==
    IF o.raises
    THEN ExceptException(p, [f EXCEPT !.any_raised = TRUE])
    ELSE /\ frame' = [frame EXCEPT ![p] = AfterCall(f, k, o, d)]
         /\ UNCHANGED <<ledger, finish_calls, result, pc>>

\* try: ... = connector.search(...) except Exception: ... = []; then
\* ingested.extend(...): a raising connector contributes nothing and the
\* fan-out goes on
connector_call(p, f, k, o, d) ==
    /\ frame' = [frame EXCEPT ![p] = AfterCall(f, k, o, d)]
    /\ UNCHANGED <<ledger, finish_calls, result, pc>>

\* one enabled connector call of _ingest_for_query: check_timeout(), then the
\* call; a timeout unwinds to the caller, whose ingested is still empty
ingest_step(p, answers) ==
    /\ pc[p] = "ingest"
    /\ frame[p].site # NoSite
    /\ LET f == frame[p]
       IN  IF check_timeout(f)
           THEN ExceptTimeout(p, [f EXCEPT !.fired = TRUE])
           ELSE \E o \in ConnectorOutcomes(f, answers), d \in 0..MaxStepSeconds :
                    connector_call(p, f, f.site, o, d)
    /\ UNCHANGED <<now, items, next_item_id, citation_cache, default_weights>>

\* as BoundIngested, but run_pipeline_query keeps every record
BoundIngested_unfiltered(f) == f.inner

\* what the caller binds to ingested once _ingest_for_query has returned:
\* run_pipeline the list itself, run_pipeline_query its relevant records
BoundIngested(f) ==
    IF f.entry = "run_pipeline_query"
    THEN SelectSeq(f.inner, LAMBDA i : _is_search_relevant(i, f.query_context))
    ELSE f.inner

\* as finalize_begin, but the duplicates go before the inclusion filter is applied
finalize_begin_dedup_first(p) ==
    /\ pc[p] = "ingest"
    /\ frame[p].site = NoSite
    /\ LET f == frame[p]
           ingested == BoundIngested(f)
           unique == _apply_filters(deduplicate(ingested), f.options)
       IN  frame' = [frame EXCEPT ![p] =
                       [f EXCEPT !.ingested = ingested, !.unique = unique,
                                 !.idx = 1, !.persisted = 0]]
    /\ pc' = [pc EXCEPT ![p] = "items"]
    /\ UNCHANGED <<now, ledger, finish_calls, items, next_item_id, citation_cache, default_weights, result>>

\* _ingest_for_query returns and the caller binds ingested; _finalize_items
\* filters and deduplicates
finalize_begin(p) ==
    /\ pc[p] = "ingest"
    /\ frame[p].site = NoSite
    /\ LET f == frame[p]
           ingested == BoundIngested(f)
           filtered == _apply_filters(ingested, f.options)
       IN  frame' = [frame EXCEPT ![p] =
                       [f EXCEPT !.ingested = ingested, !.unique = deduplicate(filtered),
                                 !.idx = 1, !.persisted = 0]]
    /\ pc' = [pc EXCEPT ![p] = "items"]
    /\ UNCHANGED <<now, ledger, finish_calls, items, next_item_id, citation_cache, default_weights, result>>

\* the lookups of an item that are not made
NoResponses == [attempt \in 1..MAX_RETRIES |-> HttpRetry]

\* as Enrichment, but the secondary provider is asked whenever the primary
\* one returned no count
Enrichment_secondary_unasked(f, item, cache, t, primary_responses, secondary_responses) ==
    IF f.options.enrich_citations
    THEN LET primary == get_citations(cache, item.doi, CITATION_CACHE_TTL_DAYS, t, primary_responses)
             ask == primary.value = NoCount
             secondary == IF ask THEN get_citations_by_pmid(item.pmid, secondary_responses) ELSE NoCount
         IN  [citations |-> IF ask THEN secondary ELSE primary.value,
              citations_source |-> IF ask /\ secondary # NoCount THEN "semantic_scholar"
                                   ELSE IF primary.value # NoCount THEN "openalex" ELSE NoText,
              cache |-> primary.cache, primary |-> primary.value, secondary_called |-> ask,
              secondary |-> secondary]
    ELSE [citations |-> NoCount, citations_source |-> NoText, cache |-> cache,
          primary |-> NoCount, secondary_called |-> FALSE, secondary |-> NoCount]

\* the citation enrichment of one item in the loop of _finalize_items: the
\* count and its source, the cache afterwards, and what was asked of whom
Enrichment(f, item, cache, t, primary_responses, secondary_responses) ==
    IF f.options.enrich_citations
    THEN LET primary == get_citations(cache, item.doi, CITATION_CACHE_TTL_DAYS, t, primary_responses)
             ask == primary.value = NoCount /\ f.options.enable_semantic_scholar
             secondary == IF ask THEN get_citations_by_pmid(item.pmid, secondary_responses) ELSE NoCount
         IN  [citations |-> IF ask THEN secondary ELSE primary.value,
              citations_source |-> IF ask /\ secondary # NoCount THEN "semantic_scholar"
                                   ELSE IF primary.value # NoCount THEN "openalex" ELSE NoText,
              cache |-> primary.cache, primary |-> primary.value, secondary_called |-> ask,
              secondary |-> secondary]
    ELSE [citations |-> NoCount, citations_source |-> NoText, cache |-> cache,
          primary |-> NoCount, secondary_called |-> FALSE, secondary |-> NoCount]

\* the frame once the enrichment e of the item at f.idx is on record
Enriched(f, e) ==
    IF f.options.enrich_citations
    THEN [f EXCEPT !.enriched = Append(@, [idx |-> f.idx, primary |-> e.primary,
                                          secondary_called |-> e.secondary_called,
                                          secondary |-> e.secondary,
                                          citations |-> e.citations,
                                          citations_source |-> e.citations_source])]
    ELSE f

\* one iteration of the per-item loop of _finalize_items
item_step(p) ==
    /\ pc[p] = "items"
    /\ frame[p].idx <= Len(frame[p].unique)
    /\ LET f == frame[p]
           item == [f.unique[f.idx] EXCEPT !.fingerprint = fingerprint_item(f.unique[f.idx]),
                                           !.mode_name = f.options.mode_name]
       IN  IF check_timeout(f)
           THEN \* timed_out = True; break; then finish_run and return
                /\ Finish(p, [f EXCEPT !.fired = TRUE], "returned", "timeout",
                          Len(f.ingested), f.persisted, NoText)
                /\ UNCHANGED <<items, next_item_id, citation_cache>>
           ELSE \E primary_responses \in
                      (IF f.options.enrich_citations THEN ResponseChoices ELSE {NoResponses}),
                   secondary_responses \in
                      (IF f.options.enrich_citations /\ f.options.enable_semantic_scholar
                       THEN ResponseChoices ELSE {NoResponses}) :
                  LET e == Enrichment(f, item, citation_cache, now, primary_responses,
                                      secondary_responses)
                      enriched == [item EXCEPT !.citations = e.citations,
                                               !.citations_source = e.citations_source]
                  IN  \E ok \in BOOLEAN :
                        IF ok
                        THEN /\ items' = upsert_item(items, next_item_id, enriched, now)
                             /\ next_item_id' = upsert_next_id(items, next_item_id, enriched)
                             /\ citation_cache' = e.cache
                             /\ \E d \in 0..MaxStepSeconds :
                                  frame' = [frame EXCEPT ![p] =
                                              [Enriched(f, e) EXCEPT
                                                  !.idx = f.idx + 1, !.persisted = f.persisted + 1,
                                                  !.elapsed = Advance(f, d)]]
                             /\ UNCHANGED <<ledger, finish_calls, result, pc>>
                        ELSE \* enrichment, scoring or upsert_item raises: before the
                             \* lookups or after them
                             \E looked_up \in (IF f.options.enrich_citations THEN BOOLEAN ELSE {FALSE}) :
                               /\ StepFails(p, IF looked_up THEN Enriched(f, e) ELSE f)
                               /\ citation_cache' = IF looked_up THEN e.cache ELSE citation_cache
                               /\ UNCHANGED <<items, next_item_id>>
    /\ UNCHANGED <<now, default_weights>>

\* as finalize_end, but the two counts change places
finalize_end_swapped(p) ==
    /\ pc[p] = "items"
    /\ frame[p].idx > Len(frame[p].unique)
    /\ Finish(p, frame[p], "returned", "success", frame[p].persisted, Len(frame[p].ingested), NoText)
    /\ UNCHANGED <<now, items, next_item_id, citation_cache, default_weights>>

\* the loop of _finalize_items ran to its end
finalize_end(p) ==
    /\ pc[p] = "items"
    /\ frame[p].idx > Len(frame[p].unique)
    /\ Finish(p, frame[p], "returned", "success", Len(frame[p].ingested), frame[p].persisted, NoText)
    /\ UNCHANGED <<now, items, next_item_id, citation_cache, default_weights>>

\* the caller takes the outcome; it may call again
Return(p) ==
    /\ pc[p] = "done"
    /\ pc' = [pc EXCEPT ![p] = "idle"]
    /\ frame' = [frame EXCEPT ![p] = IdleFrame]
    /\ result' = [result EXCEPT ![p] = NoResult]
    /\ UNCHANGED <<now, ledger, finish_calls, items, next_item_id, citation_cache, default_weights>>

\* wall-clock time passes
Tick(max_now) ==
    /\ now < max_now
    /\ now' = now + 1
    /\ UNCHANGED <<ledger, finish_calls, items, next_item_id, citation_cache, default_weights, pc, frame, result>>

\* a tick is half a day and a call takes seconds: in a history of calls time
\* passes between the calls
TickBetweenCalls ==
    /\ \A p \in Procs : pc[p] = "idle"
    /\ Tick(MaxNow)

\* two callers: the connectors return one of the two spellings of the same
\* publication, or nothing
ConcAnswers == {Returns(<<>>), Returns(<<PayloadA>>), Returns(<<PayloadB>>)}

\* a history of calls: the connectors fail or find nothing
LedgerAnswers == {Raises, Returns(<<>>)}

(***************************************************************************)
(* Spec: one call of either entry point on the empty store, in detail      *)
(***************************************************************************)
Next ==
    \/ \E s \in PipelineScopes, o \in OptionChoices : run_pipeline_begin("p1", s[1], s[2], o)
    \/ \E q \in QueryChoices, o \in OptionChoices : run_pipeline_query_begin("p1", q, o)
    \/ open_run("p1")
    \/ get_pack("p1")
    \/ ingest_step("p1", Answers(Pool))
    \/ finalize_begin("p1")
    \/ item_step("p1")
    \/ finalize_end("p1")
    \/ Tick(MaxCallTicks)

Spec == Init /\ [][Next]_vars

(***************************************************************************)
(* SpecConc: two callers, one call each, interleaved on one store          *)
(***************************************************************************)
NextConc ==
    \/ \E p \in Procs, s \in PipelineScopes, o \in ConcOptionChoices : run_pipeline_begin(p, s[1], s[2], o)
    \/ \E p \in Procs, q \in QueryChoices, o \in ConcOptionChoices : run_pipeline_query_begin(p, q, o)
    \/ \E p \in Procs : open_run(p)
    \/ \E p \in Procs : get_pack(p)
    \/ \E p \in Procs : ingest_step(p, ConcAnswers)
    \/ \E p \in Procs : finalize_begin(p)
    \/ \E p \in Procs : item_step(p)
    \/ \E p \in Procs : finalize_end(p)
    \/ Tick(MaxCallTicks)

SpecConc == Init /\ [][NextConc]_vars

(***************************************************************************)
(* SpecLedger: one caller calling again and again while time passes; the   *)
(* connectors answer but find nothing                                      *)
(***************************************************************************)
\* largest number of runs in a history of calls
MaxLedgerRuns == 2

NextLedger ==
    \/ \E s \in PipelineScopes, o \in LedgerOptionChoices : run_pipeline_begin("p1", s[1], s[2], o)
    \/ \E q \in LedgerQueryChoices, o \in LedgerOptionChoices : run_pipeline_query_begin("p1", q, o)
    \/ Len(ledger) < MaxLedgerRuns /\ open_run("p1")
    \/ get_pack("p1")
    \/ ingest_step("p1", LedgerAnswers)
    \/ finalize_begin("p1")
    \/ finalize_end("p1")
    \/ Return("p1")
    \/ TickBetweenCalls

SpecLedger == Init /\ [][NextLedger]_vars

(***************************************************************************)
(* SpecStore: one caller calling again and again on one store, the         *)
(* connector returning publications on the topic of the query              *)
(***************************************************************************)
\* one connector call, with and without a budget
StoreOptionChoices ==
    { RunOptions(MODE_ALL, RequestedDays, FALSE, TRUE, FALSE, b, 0, FALSE) : b \in {0, 1} }

StoreAnswers == {Returns(<<>>), Returns(<<PayloadA>>), Returns(<<PayloadD>>)}

NextStore ==
    \/ \E s \in PipelineScopes, o \in StoreOptionChoices : run_pipeline_begin("p1", s[1], s[2], o)
    \/ \E q \in QueryChoices, o \in StoreOptionChoices : run_pipeline_query_begin("p1", q, o)
    \/ open_run("p1")
    \/ get_pack("p1")
    \/ ingest_step("p1", StoreAnswers)
    \/ finalize_begin("p1")
    \/ item_step("p1")
    \/ finalize_end("p1")
    \/ Return("p1")

SpecStore == Init /\ [][NextStore]_vars

(***************************************************************************)
(* SpecDedup: _finalize_items on the list one connector call returned      *)
(***************************************************************************)
\* longest list a connector call returns
MaxListLen == 3

\* records with their identifiers present, blank, padded and in either case,
\* and records without any identifier
PayloadE == Payload(<<"e">>, <<" ", " ">>, <<" ", "7", " ">>, None, None)

PayloadF == Payload(<<"f">>, None, <<>>, <<"N", "1">>, None)

PayloadG == Payload(<<"O", "s", " ", "A", "b", "c">>, None, None, None, <<"2", "0", "2", "0">>)

PayloadH == Payload(<<"o", "s", " ", " ", "a", "b", "c", "?">>, <<>>, <<" ">>, None, <<"x", "2", "0", "2", "0">>)

PayloadI == Payload(<<"i">>, <<"1", "/", "x">>, <<"9">>, <<"N", "1">>, <<"1", "9", "9", "9">>)

DedupPool == {PayloadA, PayloadB, PayloadC, PayloadE, PayloadF, PayloadG, PayloadH, PayloadI}

RECURSIVE ListsUpTo(_, _)
ListsUpTo(pool, n) ==
    IF n = 0 THEN {<<>>}
    ELSE LET shorter == ListsUpTo(pool, n - 1)
         IN  shorter \cup {Append(l, x) : l \in {s \in shorter : Len(s) = n - 1}, x \in pool}

DedupOptions == RunOptions(MODE_ALL, RequestedDays, FALSE, TRUE, FALSE, 0, 0, FALSE)

\* run_pipeline after create_run, get_pack and the one connector call of its
\* fan-out, which returned the list records
AfterFanout(records) ==
    LET r == [days |-> RequestedDays, last |-> 0, looked_up |-> TRUE]
        f == [Resolved("run_pipeline", None, "lung", Immunotherapy, DedupOptions, NoQueryContext, r)
                 EXCEPT !.run_id = 1, !.site = NextSite(1, DedupOptions)]
    IN  AfterCall(f, f.site, Returns(records), 0)

InitDedup ==
    /\ now = 0
    /\ ledger = create_run(<<>>, "lung", Immunotherapy, MODE_ALL, build_sources_key(DedupOptions),
                           RequestedDays, FALSE, 0)
    /\ finish_calls = <<0>>
    /\ items = {}
    /\ next_item_id = 1
    /\ citation_cache = {}
    /\ default_weights = DEFAULT_WEIGHTS
    /\ pc = [p \in Procs |-> IF p = "p1" THEN "ingest" ELSE "idle"]
    /\ \E records \in ListsUpTo(DedupPool, MaxListLen) :
          frame = [p \in Procs |-> IF p = "p1" THEN AfterFanout(records) ELSE IdleFrame]
    /\ result = [p \in Procs |-> NoResult]

NextDedup ==
    \/ finalize_begin("p1")
    \/ item_step("p1")
    \/ finalize_end("p1")

SpecDedup == InitDedup /\ [][NextDedup]_vars

(***************************************************************************)
(* SpecSearch: the search calls of the paginating connectors, request by   *)
(* request, against an upstream that answers as it likes                   *)
(***************************************************************************)
\* the largest page the connectors ask for
PageCap == 100

\* largest limit (retmax) a search is called with
MaxLimit == 2

\* largest number of entries in one upstream page
MaxPage == 2

Connectors == {"clinicaltrials", "pubmed", "preprints"}

\* an upstream answer: a retryable status (429, 5xx), a failure (network
\* error, other HTTP error, unreadable body), or a page of n entries that
\* announces more (nextPageToken present; retstart + n < count) or not
Responses ==
    {[kind |-> k, n |-> 0, more |-> FALSE] : k \in {"retry", "error"}}
        \cup {[kind |-> "page", n |-> n, more |-> m] : n \in 0..MaxPage, m \in BOOLEAN}

\* the search returns its list
SearchDone(s, got) == [s EXCEPT !.got = got, !.done = TRUE]

\* the loop goes round: the next request is a new one
NextPage(s, got, token) == [s EXCEPT !.got = got, !.token = token, !.attempt = 1]

\* _request_with_retry of clinicaltrials.py and pubmed.py after a retryable
\* status or an exception: the next attempt, or RuntimeError after the last
RetryOrRaise(s) ==
    IF s.attempt < MAX_RETRIES THEN [s EXCEPT !.attempt = @ + 1]
    ELSE [s EXCEPT !.raised = TRUE, !.done = TRUE]

\* clinicaltrials.search after a page of n studies
clinicaltrials_page(s, n, more) ==
    LET got == Min(s.got + n, s.limit)
    IN  IF got >= s.limit THEN SearchDone(s, got)
        ELSE IF ~more THEN SearchDone(s, got)
        ELSE NextPage(s, got, TRUE)

\* pubmed.search after a page of n ids
pubmed_page(s, n, more) ==
    IF n = 0 THEN SearchDone(s, s.got)
    ELSE IF ~more THEN SearchDone(s, s.got + n)
    ELSE IF s.got + n < s.limit THEN NextPage(s, s.got + n, FALSE)
    ELSE SearchDone(s, s.got + n)

\* preprints._fetch_server returns: medrxiv follows biorxiv, then search ends
ServerDone(s, got) ==
    IF s.server = 1 THEN [s EXCEPT !.server = 2, !.got = 0, !.attempt = 1]
    ELSE SearchDone(s, got)

\* preprints._fetch_server after a page of n preprints
preprints_page(s, n) ==
    IF n = 0 THEN ServerDone(s, s.got)
    ELSE IF n < Min(s.limit, PageCap) THEN ServerDone(s, s.got + n)
    ELSE IF s.got + n < s.limit THEN NextPage(s, s.got + n, FALSE)
    ELSE ServerDone(s, s.got + n)

\* preprints._fetch_server after a retryable status or an exception: the next
\* attempt, or no payload after the last, which ends the server's loop
preprints_retry(s) ==
    IF s.attempt < MAX_RETRIES THEN [s EXCEPT !.attempt = @ + 1]
    ELSE ServerDone(s, s.got)

\* the search call after the upstream answered its request
AfterResponse(s, r) ==
    CASE s.connector = "clinicaltrials" ->
            IF r.kind = "page" THEN clinicaltrials_page(s, r.n, r.more) ELSE RetryOrRaise(s)
      [] s.connector = "pubmed" ->
            IF r.kind = "page" THEN pubmed_page(s, r.n, r.more) ELSE RetryOrRaise(s)
      [] s.connector = "preprints" ->
            IF r.kind = "page" THEN preprints_page(s, r.n) ELSE preprints_retry(s)

\* connector.search(query, limit): a call with limit <= 0 returns at once
search_begin(p, connector, limit) ==
    /\ pc[p] = "idle"
    /\ LET s == [NoSearch EXCEPT !.connector = connector, !.limit = limit, !.attempt = 1,
                                 !.server = IF connector = "preprints" THEN 1 ELSE 0,
                                 !.done = (limit <= 0)]
       IN  /\ frame' = [frame EXCEPT ![p] = [IdleFrame EXCEPT !.search = s]]
           /\ pc' = [pc EXCEPT ![p] = IF s.done THEN "searched" ELSE "searching"]
    /\ UNCHANGED <<now, ledger, finish_calls, items, next_item_id, citation_cache, default_weights, result>>

\* one outbound request of the search call and the upstream's answer
request(p, r) ==
    /\ pc[p] = "searching"
    /\ LET s == AfterResponse(frame[p].search, r)
       IN  /\ frame' = [frame EXCEPT ![p] = [frame[p] EXCEPT !.search = s]]
           /\ pc' = [pc EXCEPT ![p] = IF s.done THEN "searched" ELSE "searching"]
    /\ UNCHANGED <<now, ledger, finish_calls, items, next_item_id, citation_cache, default_weights, result>>

NextSearch ==
    \/ \E p \in Procs, c \in Connectors, l \in 0..MaxLimit : search_begin(p, c, l)
    \/ \E p \in Procs, r \in Responses : request(p, r)

\* every request carries a timeout, so a search call that has a request to
\* make goes on to make it and gets an answer
SpecSearch ==
    /\ Init
    /\ [][NextSearch]_vars
    /\ \A p \in Procs : WF_vars(\E r \in Responses : request(p, r))

(***************************************************************************)
(* SpecSources: one call of run_pipeline for every combination of the five *)
(* include flags, without a budget; the connectors fail or find nothing    *)
(***************************************************************************)
SourceOptionChoices ==
    { [RunOptions(MODE_ALL, RequestedDays, papers, trials, fda, 0, 0, FALSE)
          EXCEPT !.include_preprints = preprints, !.include_journal_rss = journal_rss] :
        papers \in BOOLEAN, trials \in BOOLEAN, fda \in BOOLEAN,
        preprints \in BOOLEAN, journal_rss \in BOOLEAN }

NextSources ==
    \/ \E s \in PipelineScopes, o \in SourceOptionChoices : run_pipeline_begin("p1", s[1], s[2], o)
    \/ open_run("p1")
    \/ get_pack("p1")
    \/ ingest_step("p1", LedgerAnswers)
    \/ finalize_begin("p1")
    \/ finalize_end("p1")

SpecSources == Init /\ [][NextSources]_vars

(***************************************************************************)
(* SpecFilter: _finalize_items over lists in which a record that the        *)
(* inclusion filter drops shares its DOI with one that the filter keeps     *)
(***************************************************************************)

PayloadJ == Payload(<<"P", "h", "a", "s", "e", " ", "2">>, <<"1", "/", "x">>, None, None, None)

PayloadK == Payload(<<"r", "c", "t">>, <<"1", "/", "x">>, <<"7">>, None, None)

FilterPool == {PayloadA, PayloadC, PayloadJ, PayloadK}

FilterOptionChoices ==
    { [DedupOptions EXCEPT !.phase_2_3_only = phase, !.rct_meta_only = rct] :
        phase \in BOOLEAN, rct \in BOOLEAN }

InitFilter ==
    /\ now = 0
    /\ ledger = create_run(<<>>, "lung", Immunotherapy, MODE_ALL, build_sources_key(DedupOptions),
                           RequestedDays, FALSE, 0)
    /\ finish_calls = <<0>>
    /\ items = {}
    /\ next_item_id = 1
    /\ citation_cache = {}
    /\ default_weights = DEFAULT_WEIGHTS
    /\ pc = [p \in Procs |-> IF p = "p1" THEN "ingest" ELSE "idle"]
    /\ \E records \in ListsUpTo(FilterPool, MaxListLen), o \in FilterOptionChoices :
          frame = [p \in Procs |->
                      IF p = "p1" THEN [AfterFanout(records) EXCEPT !.options = o] ELSE IdleFrame]
    /\ result = [p \in Procs |-> NoResult]

NextFilter ==
    \/ finalize_begin("p1")
    \/ item_step("p1")
    \/ finalize_end("p1")

SpecFilter == InitFilter /\ [][NextFilter]_vars

(***************************************************************************)
(* SpecEnrich: _finalize_items with the citation enrichment on or off, the  *)
(* secondary provider enabled or not, over records with and without a DOI  *)
(***************************************************************************)

EnrichPool == {PayloadA, PayloadC, PayloadF}

EnrichOptionChoices ==
    { [DedupOptions EXCEPT !.enrich_citations = enrich, !.enable_semantic_scholar = secondary] :
        enrich \in BOOLEAN, secondary \in BOOLEAN }

InitEnrich ==
    /\ now = 0
    /\ ledger = create_run(<<>>, "lung", Immunotherapy, MODE_ALL, build_sources_key(DedupOptions),
                           RequestedDays, FALSE, 0)
    /\ finish_calls = <<0>>
    /\ items = {}
    /\ next_item_id = 1
    /\ citation_cache = {}
    /\ default_weights = DEFAULT_WEIGHTS
    /\ pc = [p \in Procs |-> IF p = "p1" THEN "ingest" ELSE "idle"]
    /\ \E records \in ListsUpTo(EnrichPool, MaxListLen), o \in EnrichOptionChoices :
          frame = [p \in Procs |->
                      IF p = "p1" THEN [AfterFanout(records) EXCEPT !.options = o] ELSE IdleFrame]
    /\ result = [p \in Procs |-> NoResult]

NextEnrich ==
    \/ finalize_begin("p1")
    \/ item_step("p1")
    \/ finalize_end("p1")

SpecEnrich == InitEnrich /\ [][NextEnrich]_vars

(***************************************************************************)
(* SpecCache: a caller looks citation counts up, under several spellings   *)
(* of one DOI, while the cache entry ages past the TTL                     *)
(***************************************************************************)

\* the clock runs until an entry written at time 0 is a day past the TTL
MaxCacheNow == (CITATION_CACHE_TTL_DAYS + 1) * TicksPerDay

DoiOne == <<"1", "/", "x">>

\* what the caller passes for a DOI, and the DOI each spelling denotes
DoiSpellings ==
    {<<None, <<>> >>, << <<>>, <<>> >>, <<<<"d", "o", "i", ":">>, <<>> >>,
     <<<<"1", "/", "X">>, DoiOne>>, <<<<" ", "1", "/", "x", " ">>, DoiOne>>, <<<<"d", "o", "i", ":", "1", "/", "X">>, DoiOne>>,
     <<<<"h", "t", "t", "p", "s", ":", "/", "/", "d", "o", "i", ".", "o", "r", "g", "/", "1", "/", "x">>, DoiOne>>, <<<<"H", "T", "T", "P", ":", "/", "/", "D", "X", ".", "D", "O", "I", ".", "O", "R", "G", "/", "1", "/", "X">>, DoiOne>>}

\* openalex.get_citations(conn, doi), called on its own
lookup(p, doi, responses) ==
    /\ pc[p] = "idle"
    /\ LET got == get_citations(citation_cache, doi, CITATION_CACHE_TTL_DAYS, now, responses)
       IN  /\ citation_cache' = got.cache
           /\ frame' = [frame EXCEPT ![p].lookup =
                           [parity |-> 1 - @.parity, doi |-> doi, value |-> got.value,
                            requests |-> got.requests]]
    /\ UNCHANGED <<now, ledger, finish_calls, items, next_item_id, default_weights, pc, result>>

\* a day goes by
DayPasses(max_now) ==
    /\ now + TicksPerDay <= max_now
    /\ now' = now + TicksPerDay
    /\ UNCHANGED <<ledger, finish_calls, items, next_item_id, citation_cache, default_weights, pc, frame, result>>

NextCache ==
    \/ \E s \in DoiSpellings, responses \in ResponseChoices : lookup("p1", s[1], responses)
    \/ DayPasses(MaxCacheNow)

SpecCache == Init /\ [][NextCache]_vars

(***************************************************************************)
(* SpecScore: a caller scores items, with and without weight overrides and *)
(* a query context, one call after the other                               *)
(***************************************************************************)

MaxScoreCalls == 2

ScoreItem(title, abstract_or_text, venue, citations) ==
    [title |-> title, abstract_or_text |-> abstract_or_text, venue |-> venue, citations |-> citations]

ScoreItems ==
    {ScoreItem(<<"A", " ", "p", "h", "a", "s", "e", " ", "I", "I", "I", " ", "r", "a", "n", "d", "o", "m", "i", "z", "e", "d", " ", "t", "r", "i", "a", "l">>,
               <<"O", "v", "e", "r", "a", "l", "l", " ", "s", "u", "r", "v", "i", "v", "a", "l", " ", "i", "m", "p", "r", "o", "v", "e", "d", ",", " ", "n", " ", "=", " ", "2", "5", "0">>, <<"N", "E", "J", "M">>, 0),
     ScoreItem(<<"M", "u", "r", "i", "n", "e", " ", "o", "s", " ", "a", "b", "c", " ", "x", "y", "z">>, None, None, 7),
     ScoreItem(<<"C", "a", "s", "e", " ", "r", "e", "p", "o", "r", "t">>, <<"p", "a", "t", "i", "e", "n", "t", "s", "=", "2", "5">>, <<"U", "n", "k", "n", "o", "w", "n">>, NoCount),
     ScoreItem(<<"T", "r", "i", "a", "l", " ", "o", "f", " ", "a", "b", "c", " ", "n", "s", "c", "l", "c", " ", "o", "s">>, <<>>, <<"n", "e", "j", "m", " ", "e", "v", "i", "d", "e", "n", "c", "e">>, 4)}

PackRules ==
    [major_journals |-> <<<<"N", "E", "J", "M">>>>, global_penalty_terms |-> <<<<"m", "o", "u", "s", "e">>, <<"m", "u", "r", "i", "n", "e">>>>,
     include_terms |-> <<<<"a", "b", "c">>>>, exclude_terms |-> <<<<"x", "y", "z">>>>,
     search_query_context |-> NoQueryContext]

\* the rules of a query run: two synonym groups, four keywords
QueryRules ==
    [PackRules EXCEPT !.search_query_context =
        [raw_query |-> <<"a", "b", "c", " ", "n", "s", "c", "l", "c", " ", "o", "s">>,
         keywords |-> <<<<"a", "b", "c">>, <<"n", "s", "c", "l", "c">>, <<"o", "s">>, <<"z", "z", "z">>>>,
         concepts |-> <<<<<<"N", "S", "C", "L", "C">>, <<"l", "u", "n", "g">>>>, <<<<"o", "v", "e", "r", "a", "l", "l", " ", "s", "u", "r", "v", "i", "v", "a", "l">>, <<"O", "S">>>>>>]]

\* the rules and the weight overrides of a call
ScoreSettings ==
    {<<PackRules, NoOverrides>>, <<QueryRules, NoOverrides>>, <<QueryRules, [phase_iii |-> 12]>>,
     <<PackRules, [phase_iii |-> -2, preclinical_penalty |-> 3]>>,
     <<PackRules, [unknown_key |-> 5]>>}

\* scoring.score_item(item, pack_rules, weight_overrides)
score_call(p, item, pack_rules, weight_overrides) ==
    /\ pc[p] = "idle"
    /\ Len(frame[p].scored) < MaxScoreCalls
    /\ LET out == score_item(item, pack_rules, weight_overrides, default_weights)
       IN  /\ frame' = [frame EXCEPT ![p].scored =
                           Append(@, [item |-> item, pack_rules |-> pack_rules,
                                      weight_overrides |-> weight_overrides,
                                      score |-> out.score, explain |-> out.explain,
                                      item_after |-> out.item,
                                      pack_rules_after |-> out.pack_rules])]
           /\ default_weights' = out.defaults
    /\ UNCHANGED <<now, ledger, finish_calls, items, next_item_id, citation_cache, pc, result>>

NextScore ==
    \E item \in ScoreItems, setting \in ScoreSettings :
        score_call("p1", item, setting[1], setting[2])

SpecScore == Init /\ [][NextScore]_vars

(***************************************************************************)
(* SpecWindow: resolve_incremental_days_back on a ledger left by earlier   *)
(* runs, for requests with and without a cap and a forced refresh          *)
(***************************************************************************)
\* largest value of the wall clock when the resolver is called on a history
MaxAge == 5
\* largest number of earlier runs in such a history
MaxHistory == 1

\* the requests: no cap, a cap below, at and above the elapsed days, with and
\* without force_full_refresh
WindowOptionChoices ==
    { RunOptions(MODE_ALL, d, FALSE, TRUE, FALSE, 0, c, f) :
        d \in {1, RequestedDays}, c \in {0, 1, 2, RequestedDays + 1}, f \in BOOLEAN }

\* the earlier runs: the requests' scope, mode and source mix in every status,
\* and successful runs of another mode, another source mix, another scope
PastRuns ==
    {[specialty |-> "lung", subcategory |-> Immunotherapy, mode_name |-> MODE_ALL,
      sources_key |-> <<"trials">>, status |-> s] : s \in {"running", "success", "timeout", "failed"}}
    \cup {[specialty |-> "lung", subcategory |-> Immunotherapy, mode_name |-> MODE_FELLOW,
           sources_key |-> <<"trials">>, status |-> "success"],
          [specialty |-> "lung", subcategory |-> Immunotherapy, mode_name |-> MODE_ALL,
           sources_key |-> <<"trials", "fda">>, status |-> "success"],
          [specialty |-> "search", subcategory |-> _query_key(QueryAbc), mode_name |-> MODE_ALL,
           sources_key |-> <<"trials">>, status |-> "success"]}

\* the ledger h after a run r that was opened at time s and, unless it is
\* still running, finalized d ticks later
PastRun(h, r, s, d) ==
    LET opened == create_run(h, r.specialty, r.subcategory, r.mode_name, r.sources_key,
                             RequestedDays, FALSE, s)
    IN  IF r.status = "running" THEN opened
        ELSE finish_run(opened, Len(h) + 1, r.status, 0, 0,
                        IF r.status = "success" THEN NoText ELSE "error", s + d)

\* the time the last run of ledger h was opened
LastStart(h) == IF h = <<>> THEN 0 ELSE h[Len(h)].started_at

\* the ledgers of at most n runs opened one after the other and over by time t
RECURSIVE Histories(_, _)
Histories(n, t) ==
    IF n = 0 THEN {<<>>}
    ELSE LET shorter == Histories(n - 1, t)
         IN  shorter \cup
             UNION {UNION {{PastRun(h, r, s, d) : d \in 0..Min(1, t - s)} :
                             s \in LastStart(h)..t, r \in PastRuns} :
                      h \in {x \in shorter : Len(x) = n - 1}}

InitWindow ==
    /\ now \in 0..MaxAge
    /\ ledger \in Histories(MaxHistory, now)
    /\ finish_calls = [i \in 1..Len(ledger) |-> IF ledger[i].status = "running" THEN 0 ELSE 1]
    /\ items = {}
    /\ next_item_id = 1
    /\ citation_cache = {}
    /\ default_weights = DEFAULT_WEIGHTS
    /\ pc = [p \in Procs |-> "idle"]
    /\ frame = [p \in Procs |-> IdleFrame]
    /\ result = [p \in Procs |-> NoResult]

NextWindow ==
    \/ \E s \in PipelineScopes, o \in WindowOptionChoices : run_pipeline_begin("p1", s[1], s[2], o)
    \/ \E q \in QueryChoices, o \in WindowOptionChoices : run_pipeline_query_begin("p1", q, o)

SpecWindow == InitWindow /\ [][NextWindow]_vars

(***************************************************************************)
(* Properties                                                              *)
(***************************************************************************)
\* the call of caller p has ended and had opened a run
Ended(p) == pc[p] = "done" /\ frame[p].run_id > 0

\* the elapsed-time check of p's run fired in the connector fan-out
FiredInFanout(p) == frame[p].fired /\ frame[p].site # NoSite

\* the elapsed-time check of p's run fired in the per-item loop
FiredInLoop(p) == frame[p].fired /\ frame[p].site = NoSite

\* the fingerprints in the items table
StoredFingerprints == {r.fingerprint : r \in items}

\* C1: when the elapsed-time check fires before a connector call, the records
\* the earlier connector calls returned are kept: the run's ingested_count
\* counts them and each of them that passes the inclusion filter is in the
\* items table under its fingerprint.
C1_FanoutTimeoutKeepsRecords ==
    \A p \in Procs :
        (Ended(p) /\ FiredInFanout(p)) =>
            LET kept == BoundIngested(frame[p])
                filtered == _apply_filters(kept, frame[p].options)
            IN  /\ result[p].ingested_count = Len(kept)
                /\ ledger[frame[p].run_id].ingested_count = Len(kept)
                /\ \A i \in 1..Len(filtered) : fingerprint_item(filtered[i]) \in StoredFingerprints

\* C2 as claimed (no step other than a connector call raising): a run whose
\* budget is not exceeded ends with status success, whichever connectors
\* raise, and its ingested_count is the number of records the connectors
\* returned.
C2_SuccessCountsAllReturned ==
    \A p \in Procs :
        (Ended(p) /\ ~frame[p].fired /\ ~frame[p].step_failed) =>
            /\ result[p].status = "success"
            /\ result[p].ingested_count = Len(frame[p].inner)

\* C2: a run whose budget is not exceeded and in which no step other than a
\* connector call raises ends with status success, whichever connectors
\* raise; its ingested_count is the number of records the connectors
\* returned, in run_pipeline_query of those that pass the relevance predicate.
C2_RaisingConnectorsNeverAbort ==
    \A p \in Procs :
        (Ended(p) /\ ~frame[p].fired /\ ~frame[p].step_failed) =>
            /\ result[p].kind = "returned"
            /\ result[p].status = "success"
            /\ ledger[frame[p].run_id].status = "success"
            /\ result[p].ingested_count =
                   IF frame[p].entry = "run_pipeline"
                   THEN Len(frame[p].inner)
                   ELSE Cardinality({i \in 1..Len(frame[p].inner) :
                                       _is_search_relevant(frame[p].inner[i], frame[p].query_context)})
            /\ ledger[frame[p].run_id].ingested_count = result[p].ingested_count

\* a connector raised, another returned a record, and the run succeeded
\* counting it
C2_Witness ==
    \E p \in Procs :
        /\ Ended(p)
        /\ frame[p].any_raised
        /\ result[p].status = "success"
        /\ result[p].ingested_count > 0

TerminalStatus == {"success", "timeout", "failed"}

\* C3: every run is finalized exactly once, on every path: finish_run is
\* applied to its row at most once, exactly once by the time the call has
\* returned or raised, the row then carries a terminal status (the one the
\* call reports), and no later step of any run changes a finalized row.
C3_FinalizedExactlyOnce ==
    /\ [](\A i \in 1..Len(ledger) :
            /\ finish_calls[i] <= 1
            /\ ledger[i].status \in TerminalStatus \cup {"running"}
            /\ (ledger[i].status = "running") <=> (finish_calls[i] = 0))
    /\ [](\A p \in Procs :
            Ended(p) => /\ finish_calls[frame[p].run_id] = 1
                        /\ ledger[frame[p].run_id].status \in TerminalStatus
                        /\ ledger[frame[p].run_id].status = result[p].status)
    /\ [][\A i \in 1..Len(ledger) :
            ledger[i].status # "running" => (i <= Len(ledger') /\ ledger'[i] = ledger[i])]_vars

\* two runs were interleaved; the one opened first succeeded and stayed as it
\* was while the other went on and timed out
C3_Witness ==
    \E p, q \in Procs :
        /\ Ended(p) /\ Ended(q)
        /\ frame[p].run_id < frame[q].run_id
        /\ ledger[frame[p].run_id].status = "success"
        /\ ledger[frame[p].run_id].finished_at < ledger[frame[q].run_id].finished_at
        /\ ledger[frame[q].run_id].status = "timeout"

\* C4: whenever a connector is called, the run's row is in the ledger with
\* status running and the run's scope, written before the call.
C4_RunningBeforeConnectors ==
    [][\A p \in Procs :
         Len(frame'[p].calls) > Len(frame[p].calls) =>
             /\ frame[p].run_id \in 1..Len(ledger)
             /\ ledger[frame[p].run_id].status = "running"
             /\ ledger[frame[p].run_id].specialty = frame[p].specialty
             /\ ledger[frame[p].run_id].subcategory = frame[p].subcategory
             /\ ledger'[frame[p].run_id] = ledger[frame[p].run_id]]_vars

\* a search run has called its connector while its row says running
C4_Witness ==
    \E p \in Procs :
        /\ frame[p].entry = "run_pipeline_query"
        /\ Len(frame[p].calls) > 0
        /\ pc[p] = "ingest"
        /\ ledger[frame[p].run_id].status = "running"

\* C5: a call reports timeout, returns timed_out and leaves its row with
\* status timeout exactly when its elapsed-time check fired, in the fan-out
\* or in the per-item loop.
C5_TimeoutIffCheckFired ==
    \A p \in Procs :
        pc[p] = "done" =>
            /\ (result[p].status = "timeout") <=> frame[p].fired
            /\ result[p].timed_out <=> frame[p].fired
            /\ frame[p].fired => result[p].kind = "returned"
            /\ frame[p].run_id > 0 =>
                   ((ledger[frame[p].run_id].status = "timeout") <=> frame[p].fired)

\* the check fired in the per-item loop after an item had been upserted
C5_Witness ==
    \E p \in Procs :
        /\ pc[p] = "done"
        /\ FiredInLoop(p)
        /\ result[p].timed_out
        /\ result[p].deduped_count > 0

\* C6: when a step other than a connector call raises (not the timeout), the
\* run's row is finalized as failed with the error text and the call raises.
C6_FailureRecordedAndRaised ==
    \A p \in Procs :
        (pc[p] = "done" /\ frame[p].step_failed) =>
            /\ result[p].kind = "raised"
            /\ ledger[frame[p].run_id].status = "failed"
            /\ ledger[frame[p].run_id].error_text = "error"
            /\ ledger[frame[p].run_id].finished_at # NoTime

\* the per-item loop raised after the connectors had returned records
C6_Witness ==
    \E p \in Procs :
        /\ pc[p] = "done"
        /\ frame[p].step_failed
        /\ frame[p].idx > 0
        /\ ledger[frame[p].run_id].ingested_count > 0

\* every character of the query is whitespace
IsBlank(q) == \A i \in 1..Len(q) : IsSpace(q[i])

\* C7: run_pipeline_query with an empty or whitespace-only query returns
\* failed with zero counts and touches nothing: no run is created, the ledger
\* is not read, no item is cleared, no connector is called.
C7_BlankQueryTouchesNothing ==
    [][\A p \in Procs :
         (/\ pc[p] = "idle"
          /\ pc'[p] # "idle"
          /\ frame'[p].entry = "run_pipeline_query"
          /\ IsBlank(frame'[p].query)) =>
             /\ pc'[p] = "done"
             /\ result'[p] = [kind |-> "returned", run_id |-> -1, status |-> "failed",
                              ingested_count |-> 0, deduped_count |-> 0, timed_out |-> FALSE]
             /\ ~frame'[p].looked_up
             /\ frame'[p].calls = <<>>
             /\ UNCHANGED <<ledger, finish_calls, items, next_item_id>>]_vars

\* a blank query was answered on a store that holds a run and an item
C7_Witness ==
    \E p \in Procs :
        /\ pc[p] = "done"
        /\ result[p].run_id = -1
        /\ result[p].status = "failed"
        /\ Len(ledger) > 0
        /\ items # {}

\* C8: the items table holds at most one row per fingerprint; an upsert
\* writes the upserting run's scope, mode_name and field values into the row
\* of that fingerprint, and adds no row when the fingerprint is already there.
C8_OneRowPerFingerprint ==
    /\ [](\A r1, r2 \in items : r1.fingerprint = r2.fingerprint => r1 = r2)
    /\ [][\A p \in Procs :
            frame'[p].persisted = frame[p].persisted + 1 =>
                LET f == frame[p]
                    rec == f.unique[f.idx]
                    fp == fingerprint_item(rec)
                IN  /\ \E r \in items' :
                          /\ r.fingerprint = fp
                          /\ r.specialty = f.specialty
                          /\ r.subcategory = f.subcategory
                          /\ r.mode_name = f.options.mode_name
                          /\ r.title = rec.title
                          /\ r.doi = rec.doi
                          /\ r.last_seen_at = now
                    /\ (\E old \in items : old.fingerprint = fp) =>
                          Cardinality(items') = Cardinality(items)]_vars

\* two runs of different scope and mode each upserted a record of the same
\* publication, and the table holds one row
C8_Witness ==
    \E p, q \in Procs :
        /\ frame[p].persisted > 0
        /\ frame[q].persisted > 0
        /\ frame[p].specialty # frame[q].specialty
        /\ frame[p].options.mode_name # frame[q].options.mode_name
        /\ Cardinality(items) = 1

\* C9: run_pipeline_query never uses an incremental window: every days_back
\* it passes to a connector is the days_back the caller requested.
C9_SearchNeverIncremental ==
    \A p \in Procs :
        frame[p].entry = "run_pipeline_query" =>
            \A i \in 1..Len(frame[p].calls) :
                frame[p].calls[i].days_back \in {NoTime, frame[p].requested_days}

\* row i of the ledger is a successful run of the request's scope, mode and
\* source mix
MatchesRequest(i, f) ==
    /\ ledger[i].status = "success"
    /\ ledger[i].specialty = f.specialty
    /\ ledger[i].subcategory = f.subcategory
    /\ ledger[i].mode_name = f.options.mode_name
    /\ ledger[i].sources_key = build_sources_key(f.options)

\* the cap of the request: incremental_cap_days, or days_back when there is none
CapOf(f) == IF f.options.incremental_cap_days # 0 THEN f.options.incremental_cap_days
            ELSE f.requested_days

\* C10: the run resolve_incremental_days_back uses is a successful run whose
\* specialty, subcategory, mode_name and sources_key equal the request's, the
\* most recently finished of those; the window is computed from that run
\* alone, and is the capped requested window when there is no such run.
C10_ResolverUsesMatchingSuccess ==
    [][\A p \in Procs :
         (pc[p] = "idle" /\ pc'[p] = "resolved") =>
             LET f == frame'[p]
                 last == f.last_run
             IN  /\ last # 0 =>
                        /\ last \in 1..Len(ledger)
                        /\ MatchesRequest(last, f)
                        /\ \A j \in 1..Len(ledger) :
                               MatchesRequest(j, f) => ledger[j].finished_at <= ledger[last].finished_at
                        /\ f.resolved_days =
                               Min(Max(1, CeilDiv(now - ledger[last].finished_at, TicksPerDay)), CapOf(f))
                 /\ last = 0 =>
                        /\ f.options.force_full_refresh
                              \/ \A j \in 1..Len(ledger) : ~MatchesRequest(j, f)
                        /\ f.resolved_days =
                               IF f.options.force_full_refresh THEN f.requested_days
                               ELSE Min(f.requested_days, CapOf(f))]_vars

\* the resolver narrowed the window from the older of two successful runs of
\* the scope, the newer one being of another mode or source mix
C10_Witness ==
    \E p \in Procs :
        /\ pc[p] = "resolved"
        /\ Len(ledger) = 2
        /\ frame[p].last_run = 1
        /\ ledger[2].status = "success"
        /\ ledger[2].specialty = frame[p].specialty
        /\ ledger[2].subcategory = frame[p].subcategory
        /\ ledger[2].finished_at > ledger[1].finished_at
        /\ \/ ledger[2].mode_name # frame[p].options.mode_name
           \/ ledger[2].sources_key # build_sources_key(frame[p].options)
        /\ frame[p].resolved_days < frame[p].requested_days

\* C11: with force_full_refresh set, resolve_incremental_days_back returns
\* the requested days_back and no last run, whatever the ledger holds, and
\* does not read the ledger.
C11_ForcedRefreshFullWindow ==
    [][\A p \in Procs :
         (pc[p] = "idle" /\ pc'[p] = "resolved" /\ frame'[p].options.force_full_refresh) =>
             /\ frame'[p].resolved_days = frame'[p].requested_days
             /\ frame'[p].options.days_back = frame'[p].requested_days
             /\ frame'[p].last_run = 0
             /\ ~frame'[p].looked_up
             /\ ledger' = ledger]_vars

\* a forced refresh kept the full window although a successful run of the
\* same scope, mode and source mix finished less than a day before
C11_Witness ==
    \E p \in Procs :
        /\ pc[p] = "resolved"
        /\ frame[p].options.force_full_refresh
        /\ frame[p].resolved_days = RequestedDays
        /\ \E i \in 1..Len(ledger) :
               MatchesRequest(i, frame[p]) /\ now - ledger[i].finished_at < TicksPerDay

\* the number of days, rounded up, that age ticks amount to
WholeDays(age) ==
    CHOOSE d \in 0..Max(age, 0) :
        /\ d * TicksPerDay >= age
        /\ \A e \in 0..Max(age, 0) : e * TicksPerDay >= age => d <= e

\* the most recently finished of the successful runs matching the request
LastMatching(f) ==
    {i \in 1..Len(ledger) :
        /\ MatchesRequest(i, f)
        /\ \A j \in 1..Len(ledger) :
               MatchesRequest(j, f) => RunSortKey(ledger[j]) <= RunSortKey(ledger[i])}

\* the window rule of the resolver for a request that does not force a refresh
WindowRule(f) ==
    IF LastMatching(f) = {}
    THEN f.resolved_days = Min(f.requested_days, CapOf(f))
    ELSE \E i \in LastMatching(f) :
             f.resolved_days = Min(Max(1, WholeDays(now - RunSortKey(ledger[i]))), CapOf(f))

\* the matching run finished two days ago: at least two days, less than three
FinishedTwoDaysAgo(f) ==
    /\ LastMatching(f) # {}
    /\ \A i \in LastMatching(f) :
           /\ now - RunSortKey(ledger[i]) >= 2 * TicksPerDay
           /\ now - RunSortKey(ledger[i]) < 3 * TicksPerDay

\* C12 as stated: without force_full_refresh the window is min(requested, cap)
\* when no matching successful run exists, else the whole days (rounded up)
\* since that run finished, at least 1 and at most the cap; a run finished 2
\* days ago gives a window in {2, 3}.
C12_WindowArithmeticAsStated ==
    [][\A p \in Procs :
         (pc[p] = "idle" /\ pc'[p] = "resolved" /\ ~frame'[p].options.force_full_refresh) =>
             /\ WindowRule(frame'[p])
             /\ FinishedTwoDaysAgo(frame'[p]) => frame'[p].resolved_days \in {2, 3}]_vars

\* C12: as above, the window of a run finished 2 days ago being in {2, 3}
\* when the cap is at least 2 days.
C12_WindowArithmetic ==
    [][\A p \in Procs :
         (pc[p] = "idle" /\ pc'[p] = "resolved" /\ ~frame'[p].options.force_full_refresh) =>
             /\ WindowRule(frame'[p])
             /\ (FinishedTwoDaysAgo(frame'[p]) /\ CapOf(frame'[p]) >= 2) =>
                    frame'[p].resolved_days \in {2, 3}]_vars

\* a matching run finished two and a half days ago and the window is 3 days
C12_Witness ==
    \E p \in Procs :
        /\ pc[p] = "resolved"
        /\ ~frame[p].options.force_full_refresh
        /\ frame[p].last_run # 0
        /\ now - ledger[frame[p].last_run].finished_at = 2 * TicksPerDay + 1
        /\ frame[p].resolved_days = 3

\* the step is the create_run call of caller p
IsCreateRun(p) ==
    /\ pc[p] = "resolved" /\ pc'[p] \in {"get_pack", "ingest"}
    /\ Len(ledger') = Len(ledger) + 1
    /\ \A i \in 1..Len(ledger) : ledger'[i] = ledger[i]
    /\ ledger'[Len(ledger')].status = "running"
    /\ frame'[p].run_id = Len(ledger')

\* the step is the finish_run call of caller p on its own run
IsFinishRun(p) ==
    /\ pc[p] \in {"get_pack", "ingest", "items"} /\ pc'[p] = "done"
    /\ Len(ledger') = Len(ledger)
    /\ \A i \in 1..Len(ledger) : i # frame[p].run_id => ledger'[i] = ledger[i]

\* C13: resolve_incremental_days_back leaves the ledger and the Item store as
\* they are, and rows of the ledger are created and modified only by the
\* create_run and finish_run calls of the orchestrator.
C13_ResolverWritesNothing ==
    [][/\ \A p \in Procs :
            (pc[p] = "idle" /\ pc'[p] \in {"resolved", "done"}) =>
                /\ ledger' = ledger
                /\ finish_calls' = finish_calls
                /\ items' = items
                /\ next_item_id' = next_item_id
       /\ ledger' # ledger => \E p \in Procs : IsCreateRun(p) \/ IsFinishRun(p)]_vars

\* the resolver has read a ledger that holds a run while the store holds an Item
C13_Witness ==
    \E p \in Procs :
        /\ pc[p] = "resolved"
        /\ frame[p].looked_up
        /\ frame[p].last_run # 0
        /\ items # {}

\* the fingerprints of the publications the connector of SpecStore returns
StoreFingerprints == {fingerprint_item(payload) : payload \in {PayloadA, PayloadD}}

\* the store holds the Item, and a specialty/subcategory run has persisted it
PersistedBySpecialtyRun(fp) ==
    \E r \in items : r.fingerprint = fp /\ r.by_specialty_run

\* C14: an Item persisted by a specialty/subcategory run stays in the store:
\* no step of a later run_pipeline or run_pipeline_query call removes it (the
\* specification has no administrative clear).
C14_SpecialtyItemsStay ==
    [][\A fp \in StoreFingerprints :
         PersistedBySpecialtyRun(fp) => fp \in {r.fingerprint : r \in items'}]_vars

\* the rows stored under the scope of caller p
ScopeRows(p) ==
    {r \in items : r.specialty = frame[p].specialty /\ r.subcategory = frame[p].subcategory}

\* the fingerprints of the records caller p has upserted in this run
UpsertedBy(p) ==
    {fingerprint_item(frame[p].unique[i]) : i \in 1..frame[p].persisted}

\* C15: a run of run_pipeline_query empties the scope of its query before its
\* first connector call, so from then on and after the run, whatever its
\* terminal status, the Items under the scope are those this run upserted.
C15_QueryScopeHoldsOwnItems ==
    \A p \in Procs :
        (frame[p].entry = "run_pipeline_query" /\ frame[p].run_id > 0) =>
            /\ {r.fingerprint : r \in ScopeRows(p)} = UpsertedBy(p)
            /\ Cardinality(ScopeRows(p)) = Cardinality(UpsertedBy(p))
            /\ frame[p].calls = <<>> => ScopeRows(p) = {}

\* a query run has ended with nothing under its scope although an earlier
\* run of the same query had stored an Item there
C15_Witness ==
    \E p \in Procs :
        /\ Ended(p)
        /\ frame[p].entry = "run_pipeline_query"
        /\ frame[p].calls # <<>>
        /\ ScopeRows(p) = {}
        /\ \E i \in 1..(frame[p].run_id - 1) :
               /\ ledger[i].specialty = frame[p].specialty
               /\ ledger[i].subcategory = frame[p].subcategory
               /\ ledger[i].deduped_count > 0

\* the identifiers of a record in the order fingerprint_item looks at them
IdKinds == <<"doi", "pmid", "nct_id">>

\* identifier k of the record, trimmed and lowercased; empty when absent
IdText(x, k) == IF x[IdKinds[k]] = None THEN <<>> ELSE Lower(Strip(x[IdKinds[k]]))

TitleYearPrefix == <<"t", "i", "t", "l", "e", "y", "e", "a", "r", ":">>

IsTitleYear(fp) ==
    Len(fp) >= Len(TitleYearPrefix) /\ SubSeq(fp, 1, Len(TitleYearPrefix)) = TitleYearPrefix

\* fp is "<kind>:<identifier>" of the first non-blank identifier of x, and a
\* title-year fingerprint exactly when x has none
FitsIdentifierRule(x, fp) ==
    /\ (\E k \in 1..3 : IdText(x, k) # <<>>) =>
           \E k \in 1..3 :
               /\ IdText(x, k) # <<>>
               /\ \A j \in 1..(k - 1) : IdText(x, j) = <<>>
               /\ fp = KeyName(IdKinds[k]) \o <<":">> \o IdText(x, k)
    /\ IsTitleYear(fp) <=> \A k \in 1..3 : IdText(x, k) = <<>>

\* both records carry a DOI, the same up to letter case
SameDoiUpToCase(x, y) ==
    /\ IdText(x, 1) # <<>>
    /\ x.doi # None /\ y.doi # None
    /\ Lower(x.doi) = Lower(y.doi)

\* C16: fingerprint_item returns "<kind>:<identifier trimmed and lowercased>"
\* for the first non-blank of DOI, PMID and NCT id; records with the same DOI
\* up to letter case have the same fingerprint whatever their other fields;
\* the title-year fallback is used only when all three are absent or blank.
C16_FingerprintByFirstIdentifier ==
    /\ \A r \in items : FitsIdentifierRule(r, r.fingerprint)
    /\ \A p \in Procs :
          pc[p] \in {"items", "done"} =>
              LET records == frame[p].ingested
              IN  /\ \A i \in 1..Len(records) :
                         FitsIdentifierRule(records[i], fingerprint_item(records[i]))
                  /\ \A i, j \in 1..Len(records) :
                         SameDoiUpToCase(records[i], records[j]) =>
                             fingerprint_item(records[i]) = fingerprint_item(records[j])

\* the store holds a record fingerprinted by its PMID because its DOI is
\* blank, and the list held two records with one DOI in two cases, with other
\* titles, dates, PMIDs and NCT ids
C16_Witness ==
    /\ \E r \in items :
          r.doi # None /\ r.doi # <<>> /\ r.fingerprint = <<"p", "m", "i", "d", ":", "7">>
    /\ \E i, j \in 1..Len(frame["p1"].ingested) :
          LET x == frame["p1"].ingested[i]
              y == frame["p1"].ingested[j]
          IN  /\ SameDoiUpToCase(x, y)
              /\ x.doi # y.doi /\ x.title # y.title /\ x.pmid # y.pmid
              /\ x.nct_id # y.nct_id /\ x.published_at # y.published_at

\* the positions of the list whose fingerprint no earlier position has
FirstPositions(records) ==
    {i \in 1..Len(records) :
        \A j \in 1..(i - 1) : fingerprint_item(records[j]) # fingerprint_item(records[i])}

\* the k-th smallest position of a set of positions
KthPosition(positions, k) ==
    CHOOSE i \in positions : Cardinality({j \in positions : j <= i}) = k

\* the pairs of positions holding one fingerprint
DuplicatePairs(records) ==
    {pair \in (1..Len(records)) \X (1..Len(records)) :
        /\ pair[1] < pair[2]
        /\ fingerprint_item(records[pair[1]]) = fingerprint_item(records[pair[2]])}

\* C17: deduplicate returns the first record of each distinct fingerprint, in
\* input order and with that record's own fields; no two records of the output
\* share a fingerprint; a list with exactly one duplicate pair comes back one
\* shorter.
C17_FirstOfEachFingerprint ==
    \A p \in Procs :
        pc[p] \in {"items", "done"} =>
            LET records == _apply_filters(frame[p].ingested, frame[p].options)
                out == frame[p].unique
                firsts == FirstPositions(records)
            IN  /\ Len(out) = Cardinality(firsts)
                /\ \A k \in 1..Len(out) :
                       LET x == records[KthPosition(firsts, k)]
                       IN  out[k] = [x EXCEPT !.fingerprint = fingerprint_item(x)]
                /\ \A k, l \in 1..Len(out) : out[k].fingerprint = out[l].fingerprint => k = l
                /\ Cardinality(DuplicatePairs(records)) = 1 => Len(out) = Len(records) - 1

\* a list of three records, the first and the last with one fingerprint but
\* other titles, came back as its first two records
C17_Witness ==
    \E p \in Procs :
        /\ pc[p] = "done"
        /\ Len(frame[p].ingested) = 3
        /\ DuplicatePairs(frame[p].ingested) = {<<1, 3>>}
        /\ frame[p].ingested[1].title # frame[p].ingested[3].title
        /\ Len(frame[p].unique) = 2
        /\ frame[p].unique[1].title = frame[p].ingested[1].title

\* deduped_count and ingested_count are in order and within the number of
\* records returned
CountsInOrder(deduped_count, ingested_count, returned) ==
    /\ 0 <= deduped_count
    /\ deduped_count <= ingested_count
    /\ ingested_count <= returned

\* C18: in the outcome and in the finalized RunRecord of every run,
\* 0 <= deduped_count <= ingested_count, and ingested_count is at most the
\* number of records the connectors returned before the deadline; runs ending
\* with status timeout included.
C18_CountsOrdered ==
    \A p \in Procs :
        Ended(p) =>
            /\ ledger[frame[p].run_id].status \in TerminalStatus
            /\ CountsInOrder(ledger[frame[p].run_id].deduped_count,
                             ledger[frame[p].run_id].ingested_count, Len(frame[p].inner))
            /\ result[p].kind = "returned" =>
                   CountsInOrder(result[p].deduped_count, result[p].ingested_count,
                                 Len(frame[p].inner))

\* a run timed out in the per-item loop after it had persisted one of its two
\* records
C18_Witness ==
    \E p \in Procs :
        /\ Ended(p)
        /\ result[p].status = "timeout"
        /\ result[p].deduped_count = 1
        /\ result[p].ingested_count = 2
        /\ ledger[frame[p].run_id].deduped_count = 1
        /\ ledger[frame[p].run_id].ingested_count = 2

\* the run of the frame has a budget and its elapsed time is past it
OverBudget(f) ==
    f.options.max_run_seconds > 0 /\ f.elapsed > f.options.max_run_seconds

\* the connectors the frame has called: a connector of the fan-out is one
\* guarded step (pubmed.search followed by pubmed.fetch is the pubmed step)
Called(f) == {f.calls[i].site : i \in 1..Len(f.calls)}

\* the enabled connectors from position k of the fan-out on
EnabledFrom(k, options) ==
    {Sites[j] : j \in {i \in k..Len(Sites) : SiteEnabled(i, options)}}

C20_SearchCallsTerminate ==
    /\ [](\A p \in Procs : pc[p] = "searching" => frame[p].search.attempt <= MAX_RETRIES)
    /\ \A p \in Procs : (pc[p] = "searching") ~> (pc[p] = "searched")

\* C30 as stated: for days_back >= 1 the effective window is at least 1 and
\* never larger than the requested days_back, whatever incremental_cap_days is.
C30_WindowWithinRequestAsStated ==
    [][\A p \in Procs :
         (pc[p] = "idle" /\ pc'[p] = "resolved" /\ frame'[p].requested_days >= 1) =>
             /\ frame'[p].resolved_days >= 1
             /\ frame'[p].resolved_days <= frame'[p].requested_days]_vars

\* C30: for days_back >= 1 and a cap that is unset or at least 1 the effective
\* window is at least 1 and never larger than the larger of the requested
\* days_back and the cap; without a matching successful run it is never
\* larger than the requested days_back.
C30_WindowWithinCap ==
    [][\A p \in Procs :
         (pc[p] = "idle" /\ pc'[p] = "resolved" /\ frame'[p].requested_days >= 1) =>
             /\ frame'[p].resolved_days >= 1
             /\ frame'[p].resolved_days <= Max(frame'[p].requested_days, CapOf(frame'[p]))
             /\ frame'[p].last_run = 0 =>
                    frame'[p].resolved_days <= frame'[p].requested_days]_vars

\* the window is larger than the requested days_back: the cap is larger and
\* the matching run finished longer ago than the request reaches
C30_Witness ==
    \E p \in Procs :
        /\ pc[p] = "resolved"
        /\ frame[p].requested_days >= 1
        /\ frame[p].last_run # 0
        /\ frame[p].resolved_days > frame[p].requested_days
        /\ frame[p].resolved_days <= CapOf(frame[p])

\* the five source categories of the include flags
SourceCategories == {"papers", "trials", "preprints", "journal_rss", "fda"}

\* the source category whose part of the fan-out calls the connector
CategoryOf(site) ==
    CASE site \in {"pubmed", "europepmc"} -> "papers"
      [] site = "rss_feeds" -> "journal_rss"
      [] site \in {"preprints", "europepmc_preprints"} -> "preprints"
      [] site = "clinicaltrials" -> "trials"
      [] site = "fda" -> "fda"

\* the categories named in the sources_key of a row of the ledger
NamedIn(row) == {row.sources_key[i] : i \in 1..Len(row.sources_key)}

\* C29: in a run whose budget is not exceeded, a connector of a source
\* category is called if and only if the category is named in the
\* sources_key recorded for the run.
C29_CalledIffInSourcesKey ==
    \A p \in Procs :
        (pc[p] \in {"items", "done"} /\ frame[p].run_id > 0
            /\ ~frame[p].fired /\ ~frame[p].step_failed) =>
            \A c \in SourceCategories :
                (\E site \in Called(frame[p]) : CategoryOf(site) = c)
                    <=> c \in NamedIn(ledger[frame[p].run_id])

\* C28: for every finalized RunRecord, on the success, timeout and failed
\* paths alike, deduped_count is the number of Items the run upserted before
\* it was finalized.
C28_DedupedCountsUpserts ==
    \A p \in Procs :
        Ended(p) =>
            /\ ledger[frame[p].run_id].status \in TerminalStatus
            /\ ledger[frame[p].run_id].deduped_count = frame[p].persisted

\* the term, trimmed and lowercased, is not blank and occurs in the text
Occurs(term, text) ==
    LET t == Lower(Strip(OrEmpty(term)))
    IN  t # <<>> /\ Contains(text, t)

\* some concept-group term, some keyword, or the raw query of length >= 4
\* occurs in the title, abstract or structured fields of the record, which
\* are not all empty
QueryOverlap(item, query_context) ==
    LET text == _item_search_blob(item)
        raw_query == Lower(Strip(query_context.raw_query))
    IN  /\ \E i \in 1..Len(text) : ~IsSpace(text[i])
        /\ \/ \E g \in 1..Len(query_context.concepts) :
                  \E t \in 1..Len(query_context.concepts[g]) :
                      Occurs(query_context.concepts[g][t], text)
           \/ \E k \in 1..Len(query_context.keywords) :
                  Occurs(query_context.keywords[k], text)
           \/ (Len(raw_query) >= 4 /\ Contains(text, raw_query))

\* C25: every Item persisted by run_pipeline_query satisfies the
\* query-relevance predicate, and the run's ingested_count counts only
\* records that satisfy it.
C25_QueryRunKeepsRelevantOnly ==
    \A p \in Procs :
        (frame[p].entry = "run_pipeline_query" /\ frame[p].run_id > 0) =>
            LET f == frame[p]
                relevant == {i \in 1..Len(f.inner) : QueryOverlap(f.inner[i], f.query_context)}
            IN  /\ \A i \in 1..Len(f.ingested) : QueryOverlap(f.ingested[i], f.query_context)
                /\ \A i \in 1..f.persisted : QueryOverlap(f.unique[i], f.query_context)
                /\ \A r \in ScopeRows(p) :
                       \E i \in 1..f.persisted : fingerprint_item(f.unique[i]) = r.fingerprint
                /\ Ended(p) =>
                       /\ ledger[f.run_id].ingested_count <= Cardinality(relevant)
                       /\ result[p].kind = "returned" =>
                              result[p].ingested_count <= Cardinality(relevant)

\* a query run kept and persisted the one record on the topic of the query
\* and dropped the one off it
C25_Witness ==
    \E p \in Procs :
        /\ Ended(p)
        /\ frame[p].entry = "run_pipeline_query"
        /\ result[p].status = "success"
        /\ Len(frame[p].inner) = 2
        /\ \E i \in 1..2 : ~QueryOverlap(frame[p].inner[i], frame[p].query_context)
        /\ result[p].ingested_count = 1
        /\ Cardinality(ScopeRows(p)) = 1

\* the positions of the ingested records that the inclusion filter keeps
Included(f) ==
    {i \in 1..Len(f.ingested) : _apply_filters_include(f.ingested[i], f.options)}

\* C26: _finalize_items filters, then deduplicates, then upserts: the
\* deduplicated list holds, for every fingerprint of a record the filter
\* keeps, the first kept record of that fingerprint and nothing else; every
\* stored row is one of them; a run that succeeded stored them all, so a
\* record whose earlier duplicate was filtered out is persisted.
C26_FilterThenDedupThenUpsert ==
    \A p \in Procs :
        pc[p] \in {"items", "done"} =>
            LET f == frame[p]
                kept == Included(f)
                fp(i) == fingerprint_item(f.ingested[i])
            IN  /\ \A k \in 1..Len(f.unique) :
                       \E i \in kept :
                           /\ f.unique[k] = [f.ingested[i] EXCEPT !.fingerprint = fp(i)]
                           /\ \A j \in kept : j < i => fp(j) # fp(i)
                /\ \A i \in kept : \E k \in 1..Len(f.unique) : f.unique[k].fingerprint = fp(i)
                /\ \A r \in items : \E i \in kept : r.fingerprint = fp(i)
                /\ (pc[p] = "done" /\ result[p].status = "success") =>
                       \A i \in kept : fp(i) \in {r.fingerprint : r \in items}

\* a run succeeded whose first record was filtered out and whose second
\* record, of the same fingerprint, is the stored row
C26_Witness ==
    \E p \in Procs :
        /\ pc[p] = "done"
        /\ result[p].status = "success"
        /\ Len(frame[p].ingested) >= 2
        /\ 1 \notin Included(frame[p])
        /\ 2 \in Included(frame[p])
        /\ fingerprint_item(frame[p].ingested[1]) = fingerprint_item(frame[p].ingested[2])
        /\ frame[p].ingested[1].title # frame[p].ingested[2].title
        /\ \E r \in items : /\ r.fingerprint = fingerprint_item(frame[p].ingested[2])
                             /\ r.title = frame[p].ingested[2].title

\* C23: in the per-item enrichment the secondary provider is called only
\* with the enrichment on, the secondary provider enabled and no count from
\* the primary lookup of that item; citations_source is the provider whose
\* count is stored, and there is none exactly when there is no count.
C23_SecondaryOnlyWhenEnabledAndPrimaryNull ==
    \A p \in Procs :
        LET f == frame[p]
        IN  /\ \A k \in 1..Len(f.enriched) :
                   LET e == f.enriched[k]
                   IN  /\ f.options.enrich_citations
                       /\ e.secondary_called =>
                              f.options.enable_semantic_scholar /\ e.primary = NoCount
                       /\ e.citations = NoCount <=> e.citations_source = NoText
                       /\ e.citations_source \in {NoText, "openalex", "semantic_scholar"}
                       /\ e.citations_source = "openalex" => e.citations = e.primary
                       /\ e.citations_source = "semantic_scholar" =>
                              e.secondary_called /\ e.citations = e.secondary
            /\ pc[p] \in {"items", "done"} =>
                   \A r \in items :
                       /\ r.citations = NoCount <=> r.citations_source = NoText
                       /\ IF f.options.enrich_citations
                          THEN \E k \in 1..Len(f.enriched) :
                                   /\ f.unique[f.enriched[k].idx].fingerprint = r.fingerprint
                                   /\ f.enriched[k].citations = r.citations
                                   /\ f.enriched[k].citations_source = r.citations_source
                          ELSE r.citations = NoCount

\* a run stored one count of the primary provider and, for an item the
\* primary provider knew nothing of, one count of the secondary provider
C23_Witness ==
    \E p \in Procs :
        /\ pc[p] = "done"
        /\ \E k \in 1..Len(frame[p].enriched) :
               /\ frame[p].enriched[k].primary = NoCount
               /\ frame[p].enriched[k].secondary_called
               /\ frame[p].enriched[k].citations_source = "semantic_scholar"
        /\ \E r \in items : r.citations_source = "semantic_scholar" /\ r.citations # NoCount
        /\ \E r \in items : r.citations_source = "openalex" /\ r.citations # NoCount

\* the DOI that a spelling of DoiSpellings denotes
Denoted(doi) == (CHOOSE s \in DoiSpellings : s[1] = doi)[2]

\* the entries of the cache for the DOI that doi denotes, no older than the
\* TTL at time t
FreshEntries(cache, doi, t) ==
    {r \in cache : /\ r.doi = Denoted(doi)
                   /\ t - r.fetched_at <= CITATION_CACHE_TTL_DAYS * TicksPerDay}

\* C24: a lookup made while the cache holds an entry for the same DOI (in
\* whatever spelling: letter case, padding, doi.org URL prefix, doi: prefix)
\* that is no older than the TTL returns the stored count, makes no outbound
\* request and leaves the cache as it is; a lookup makes outbound requests
\* only when there is no such entry.
C24_CachedWithinTtl ==
    [][\A p \in Procs :
          frame'[p].lookup.parity # frame[p].lookup.parity =>
              LET l == frame'[p].lookup
                  fresh == FreshEntries(citation_cache, l.doi, now)
              IN  /\ fresh # {} =>
                         /\ l.requests = 0
                         /\ \A r \in fresh : l.value = r.cited_by_count
                         /\ citation_cache' = citation_cache
                  /\ l.requests > 0 => fresh = {}]_vars

\* a lookup under the doi: spelling was answered with the count 4 from an
\* entry exactly as old as the TTL, without a request
C24_Witness ==
    \E p \in Procs :
        /\ frame[p].lookup.doi = <<"d", "o", "i", ":", "1", "/", "X">>
        /\ frame[p].lookup.requests = 0
        /\ frame[p].lookup.value = 4
        /\ \E r \in citation_cache :
               /\ r.doi = DoiOne
               /\ r.cited_by_count = 4
               /\ now - r.fetched_at = CITATION_CACHE_TTL_DAYS * TicksPerDay

\* the calls of score_item that caller p made
ScoreCalls(p) == {frame[p].scored[k] : k \in 1..Len(frame[p].scored)}

\* C21: two calls of score_item with equal item, rules and overrides return
\* the same score and the same explanation, and a call leaves the item, the
\* rules and DEFAULT_WEIGHTS as they were.
C21_ScoreItemPure ==
    /\ default_weights = DEFAULT_WEIGHTS
    /\ \A p \in Procs :
          /\ \A c \in ScoreCalls(p) : c.item_after = c.item /\ c.pack_rules_after = c.pack_rules
          /\ \A c, d \in ScoreCalls(p) :
                (c.item = d.item /\ c.pack_rules = d.pack_rules
                    /\ c.weight_overrides = d.weight_overrides)
                  => (c.score = d.score /\ c.explain = d.explain)

\* a call with overrides and a query context, whose rules fired, was followed
\* by a call without overrides for the same item and rules, which returned the
\* explanation of the default weights
C21_Witness ==
    \E p \in Procs :
        /\ Len(frame[p].scored) = 2
        /\ frame[p].scored[1].weight_overrides = [phase_iii |-> 12]
        /\ frame[p].scored[1].pack_rules = QueryRules
        /\ frame[p].scored[1].explain[1] = <<"+", "1", "2", " ", "p", "h", "a", "s", "e", " ", "i", "i", "i">>
        /\ frame[p].scored[2].weight_overrides = NoOverrides
        /\ frame[p].scored[2].item = frame[p].scored[1].item
        /\ frame[p].scored[2].explain[1] = <<"+", "6", " ", "p", "h", "a", "s", "e", " ", "i", "i", "i">>
        /\ frame[p].scored[2].score = frame[p].scored[1].score - 6

\* the text of a line of the explanation before its first space, and after it
FirstSpace(line) ==
    IF \E i \in 1..Len(line) : line[i] = " "
    THEN CHOOSE i \in 1..Len(line) : line[i] = " " /\ \A j \in 1..(i - 1) : line[j] # " "
    ELSE Len(line) + 1

Delta(line) == SubSeq(line, 1, FirstSpace(line) - 1)

LabelOf(line) == SubSeq(line, FirstSpace(line) + 1, Len(line))

\* a sign and then digits: +6, -4
WellSigned(head) == Len(head) >= 2 /\ head[1] \in {"+", "-"} /\ IsDigitStr(Tail(head))

\* the point delta a line starts with (0 where it starts with none)
DeltaOf(line) ==
    IF ~WellSigned(Delta(line)) THEN 0
    ELSE IF Delta(line)[1] = "-" THEN 0 - NatOf(Tail(Delta(line))) ELSE NatOf(Tail(Delta(line)))

RECURSIVE SumDeltas(_)
SumDeltas(explain) == IF Len(explain) = 0 THEN 0 ELSE DeltaOf(explain[1]) + SumDeltas(Tail(explain))

\* how the labels of the rules start, in the order score_item evaluates the rules
RuleLabels ==
    <<<<"p", "h", "a", "s", "e", " ", "i", "i", "i">>,
      <<"r", "a", "n", "d", "o", "m", "i", "z", "e", "d">>,
      <<"m", "e", "t", "a", "-", "a", "n", "a", "l", "y", "s", "i", "s">>,
      <<"p", "h", "a", "s", "e", " ", "i", "i">>,
      <<"o", "v", "e", "r", "a", "l", "l", " ", "s", "u", "r", "v", "i", "v", "a", "l">>,
      <<"p", "r", "o", "g", "r", "e", "s", "s", "i", "o", "n", "-", "f", "r", "e", "e", " ", "s", "u", "r", "v", "i", "v", "a", "l">>,
      <<"s", "a", "m", "p", "l", "e", " ", "s", "i", "z", "e", " ", ">", "=", "2", "0", "0">>,
      <<"m", "a", "j", "o", "r", " ", "j", "o", "u", "r", "n", "a", "l">>,
      <<"c", "i", "t", "a", "t", "i", "o", "n", "s", " ", "b", "o", "n", "u", "s">>,
      <<"p", "r", "e", "c", "l", "i", "n", "i", "c", "a", "l", " ", "s", "i", "g", "n", "a", "l">>,
      <<"c", "a", "s", "e", " ", "r", "e", "p", "o", "r", "t">>,
      <<"g", "l", "o", "b", "a", "l", " ", "p", "e", "n", "a", "l", "t", "y">>,
      <<"i", "n", "c", "l", "u", "d", "e", " ", "t", "e", "r", "m", ":", " ">>,
      <<"e", "x", "c", "l", "u", "d", "e", " ", "t", "e", "r", "m", ":", " ">>,
      <<"q", "u", "e", "r", "y", " ", "p", "h", "r", "a", "s", "e", " ", "m", "a", "t", "c", "h">>,
      <<"q", "u", "e", "r", "y", " ", "c", "o", "n", "c", "e", "p", "t", " ", "m", "a", "t", "c", "h", " ", "(">>,
      <<"q", "u", "e", "r", "y", " ", "k", "e", "y", "w", "o", "r", "d", " ", "m", "a", "t", "c", "h", " ", "(">>,
      <<"q", "u", "e", "r", "y", " ", "c", "o", "v", "e", "r", "a", "g", "e">>>>

\* the place of a line's rule in the evaluation order (0: no rule of score_item)
RuleRank(line) ==
    LET label == LabelOf(line)
        starts == {k \in 1..Len(RuleLabels) :
                      /\ Len(label) >= Len(RuleLabels[k])
                      /\ SubSeq(label, 1, Len(RuleLabels[k])) = RuleLabels[k]}
    IN  IF starts = {} THEN 0 ELSE CHOOSE k \in starts : \A l \in starts : k <= l

\* C22: the score of a call is the sum of the point deltas of its
\* explanation; the explanation has one line per fired rule, in evaluation
\* order; every line starts with a signed point delta.
C22_ExplanationSignedAndSummed ==
    \A p \in Procs : \A c \in ScoreCalls(p) :
        LET blob == Lower(OrEmpty(c.item.title)) \o <<" ">> \o Lower(OrEmpty(c.item.abstract_or_text))
        IN  /\ \A k \in 1..Len(c.explain) : RuleRank(c.explain[k]) >= 1
            /\ \A k, l \in 1..Len(c.explain) :
                   k < l => /\ RuleRank(c.explain[k]) <= RuleRank(c.explain[l])
                            /\ RuleRank(c.explain[k]) = RuleRank(c.explain[l])
                                  => RuleRank(c.explain[k]) \in {13, 14}
            /\ \A b \in 1..Len(BOOSTS) :
                   (\E k \in 1..Len(c.explain) : LabelOf(c.explain[k]) = BOOSTS[b].terms[1])
                     <=> (\E t \in 1..Len(BOOSTS[b].terms) : Contains(blob, BOOSTS[b].terms[t]))
            /\ \A k \in 1..Len(c.explain) : WellSigned(Delta(c.explain[k]))
            /\ c.score = SumDeltas(c.explain)

\* C27: in the query-relevance boost the concept contribution, scaled by the
\* fraction of synonym groups matched and capped, is at most the concept
\* weight, and the keyword contribution at most six times the keyword
\* weight, so the boost stays within the sum of the four query weights'
\* largest contributions.
C27_QueryBoostBounded ==
    \A p \in Procs : \A c \in ScoreCalls(p) :
        LET w == DEFAULT_WEIGHTS
            Lines(rank) == {k \in 1..Len(c.explain) : RuleRank(c.explain[k]) = rank}
            query_lines == SelectSeq(c.explain, LAMBDA line : RuleRank(line) >= 15)
        IN  /\ \A k \in Lines(16) : DeltaOf(c.explain[k]) <= w.query_concept
            /\ \A k \in Lines(17) : DeltaOf(c.explain[k]) <= 6 * w.query_keyword
            /\ SumDeltas(query_lines)
                   <= w.query_exact_phrase + w.query_concept + 6 * w.query_keyword + w.query_coverage

TypeOK ==
    /\ now \in 0..Max(Max(MaxNow, MaxAge), MaxCacheNow)
    /\ Len(ledger) <= Max(MaxRuns, MaxHistory)
    /\ \A p \in Procs : pc[p] \in {"idle", "resolved", "get_pack", "ingest", "items", "done",
                                   "searching", "searched"}

====
